---- MODULE Spec2Model ----
(***************************************************************************)
(* File Integrity Monitor (fim): the signed record store (database.py),    *)
(* the baseline create/verify engine and the monitor coordinator (core.py) *)
(* and the fingerprinter (models.py).                                      *)
(*                                                                         *)
(* Ten specifications share the definitions below:                         *)
(*   Spec       the file tree, the SQLite store with its connections and   *)
(*              write lock, and the calls of BaselineManager and the       *)
(*              store, on a new database file;                             *)
(*   SpecMon    FileMonitor with its caller threads, the observers'        *)
(*              delivery threads, the polling loop and the event funnel;   *)
(*   SpecSolo   FileMonitor with one caller, whose calls follow each       *)
(*              other;                                                     *)
(*   SpecPoll   the polling loop of one caller and stop_monitoring of      *)
(*              another, with fair scheduling of both;                     *)
(*   SpecWriters create_baseline of one thread and the event funnel of     *)
(*              a running observer writing to one database file;           *)
(*   SpecSig    sign-on-write / verify-on-read of one row as pure          *)
(*              functions;                                                 *)
(*   SpecRead   get_baseline and verify_baseline as functions of the table *)
(*              they read, with direct changes of storage;                 *)
(*   SpecEvents get_events and verify_integrity as functions of the tables *)
(*              they read, with columns overwritten in storage;            *)
(*   SpecInstances the reads of two DatabaseManager instances opened on    *)
(*              one database file;                                         *)
(*   SpecStore  the calls of BaselineManager, the store and the event      *)
(*              funnel on a database file that already holds signed rows.  *)
(***************************************************************************)
EXTENDS Integers, Sequences, FiniteSets, TLC

\* ------------------------------------------------------------------ bounds
\* How many steps the environment takes in one behaviour: changes of the file
\* tree and direct modifications of storage together.
MaxEnvOps == 2
\* The largest modification time a file reaches (a rewrite advances it).
MaxMtime == 2
\* How many change notifications the observers deliver in one behaviour.
MaxNotify == 1
\* How many ticks the polling loop runs in one behaviour.
MaxTicks == 1

\* ------------------------------------------------------------ the file tree
Roots == {"r1", "r2"}
\* A root that is never there (create_baseline's existence check).
MissingRoot == "r0"

Paths == {"r1/a.txt", "r1/b.conf", "r2/c.tmp"}

\* os.walk's enumeration order of the model's paths.
WalkOrder == <<"r1/a.txt", "r1/b.conf", "r2/c.tmp">>

RootOf(p) ==
    CASE p = "r1/a.txt" -> "r1"
      [] p = "r1/b.conf" -> "r1"
      [] p = "r2/c.tmp" -> "r2"
      [] OTHER -> MissingRoot

\* os.path.basename
Basename(p) ==
    CASE p = "r1/a.txt" -> "a.txt"
      [] p = "r1/b.conf" -> "b.conf"
      [] p = "r2/c.tmp" -> "c.tmp"
      [] OTHER -> p

\* pathlib's Path(p).suffix, lower-cased
Suffix(p) ==
    CASE p = "r1/a.txt" -> ".txt"
      [] p = "r1/b.conf" -> ".conf"
      [] p = "r2/c.tmp" -> ".tmp"
      [] p = "r1/cabinet.txt" -> ".txt"
      [] p = "Windows/System32/x.txt" -> ".txt"
      [] p = "r1/D.DLL" -> ".dll"
      [] OTHER -> ""

Contents == {"c1", "c2"}
\* st_mode of a regular file with mode 0644, 0600 and 0000
DefaultPerm == 33188
PrivatePerm == 33152
NoAccessPerm == 32768
Perms == {DefaultPerm, PrivatePerm, NoAccessPerm}
Owner == "alice"

\* SHA-256 of a file's bytes as a hex string (injective on the model's contents).
Sha256(c) ==
    CASE c = "c1" -> "h1"
      [] c = "c2" -> "h2"
      [] OTHER -> "h0"

\* what _calculate_hash returns when the file cannot be opened
EmptyHash == ""

Hashes == {"h1", "h2", EmptyHash}

\* st_size of a file with the given bytes
SizeOf(c) ==
    CASE c = "c1" -> 1
      [] c = "c2" -> 2
      [] OTHER -> 0

Absent ==
    [exists |-> FALSE, content |-> "", permissions |-> 0, mtime |-> 0]

File(c, perm, m) ==
    [exists |-> TRUE, content |-> c, permissions |-> perm, mtime |-> m]

\* open(file_path, 'rb') succeeds
Readable(f) == f.exists /\ f.permissions # NoAccessPerm

VARIABLES
    fs,          \* the file tree: path -> file
    fsOps,       \* changes of the tree so far
    baseline,    \* committed rows of table baseline, in rowid order
    events,      \* committed rows of table events, in rowid order
    audit_log,   \* committed rows of table audit_log, in rowid order
    tampers,     \* direct modifications of storage so far
    dbLock,      \* the connection holding SQLite's write lock, or NoConn
    txn,         \* the lock holder's uncommitted view of table baseline
    pc,          \* the API caller's position
    call,        \* the API call in progress
    queue,       \* store_baseline: records not yet inserted
    ret,         \* outcome of the last completed API call
    snap,        \* the last create_baseline: the tree it walked, and what happened since
    is_monitoring, \* FileMonitor.is_monitoring
    observer,    \* FileMonitor.observer: an observer id, or NoObserver
    handler,     \* FileMonitor.handler: a handler id, or NoHandler
    observers,   \* every Observer object created: id -> its state
    mpc,         \* position of each thread that calls into the FileMonitor
    mcall,       \* each such thread's call in progress: its paths, and (start
                 \* and stop) whether is_monitoring was set when it was made
    mret,        \* the call that has just ended, until the next call begins:
                 \* what it was, is_monitoring when it was made, and how it ended
    polling,     \* what the polling loop's last pass did
    ticks,       \* polling ticks so far
    notifies,    \* notifications delivered so far
    handled,     \* what the event funnel did with the event just handled,
                 \* until the next notification is picked up
    stopRet,     \* a stop_monitoring call has returned and no start was called since
    sigrow,      \* SpecSig: the row under test
    sigstep      \* SpecSig: what has been done to it

storeVars == <<baseline, events, audit_log, tampers, dbLock, txn>>
apiVars == <<pc, call, queue, ret, snap>>
fsVars == <<fs, fsOps>>
monVars == <<is_monitoring, observer, handler, observers, mpc, mcall, mret, polling,
             ticks, notifies, handled, stopRet>>
sigVars == <<sigrow, sigstep>>
vars == <<fsVars, storeVars, apiVars, monVars, sigVars>>

\* ------------------------------------------------------------ fingerprinter
\* FileRecord._calculate_hash: the SHA-256 of the bytes, or "" when open() fails.
CalculateHash(f) ==
    IF Readable(f) THEN Sha256(f.content) ELSE EmptyHash

\* FileRecord.from_path fails (ValueError) exactly when os.stat fails.
FromPathRaises(f) == ~f.exists

\* FileRecord.from_path when os.stat succeeds: stat's metadata and the hash.
FromPath(p, f) ==
    [file_path |-> p,
     file_hash |-> CalculateHash(f),
     file_size |-> SizeOf(f.content),
     mtime |-> f.mtime,
     permissions |-> f.permissions,
     owner |-> Owner]

\* ---------------------------------------------------------------- exclusion
\* fnmatch.fnmatch(name, pat) for the patterns of the model: "*<ext>" matches
\* every name ending in <ext>, a pattern without wildcard matches itself.
Fnmatch(name, pat) ==
    CASE pat = "*.tmp" -> Suffix(name) = ".tmp"
      [] pat = "*.txt" -> Suffix(name) = ".txt"
      [] pat = "*.conf" -> Suffix(name) = ".conf"
      [] OTHER -> name = pat

\* The exclusion lists a caller passes (None and [] behave alike).
PatternLists == {<<>>, <<"*.conf">>}

\* BaselineManager._should_exclude
ShouldExclude(p, patterns) ==
    \E i \in 1..Len(patterns) :
        Fnmatch(p, patterns[i]) \/ Fnmatch(Basename(p), patterns[i])

\* os.walk(root): the existing files below root, in enumeration order.
Walk(root, tree) ==
    SelectSeq(WalkOrder, LAMBDA p : RootOf(p) = root /\ tree[p].exists)

\* The walk of create_baseline / verify_baseline: one FileRecord per file
\* that is not excluded and that from_path does not fail on.
WalkRecords(root, patterns, tree) ==
    LET kept == SelectSeq(Walk(root, tree),
                          LAMBDA p : ~ShouldExclude(p, patterns)
                                     /\ ~FromPathRaises(tree[p]))
    IN  [i \in 1..Len(kept) |-> FromPath(kept[i], tree[kept[i]])]

\* ------------------------------------------------------------------ signer
\* DatabaseManager.secret_key of the store instance, and a key that is not it.
SecretKey == "k1"
AttackerKey == "kx"

\* A key read back from the database file: the same for every instance.
PersistedSecretKey(instance) == SecretKey

\* __init__: self.secret_key = self._generate_secret_key(), 32 fresh random
\* bytes for every DatabaseManager instance; instance 1 is the store instance.
GenerateSecretKey(instance) == IF instance = 1 THEN SecretKey ELSE "k2"

\* _sign_data: HMAC-SHA256 of the string under the key (collision free).
SignData(key, data) == [key |-> key, data |-> data]

\* A comparison that accepts no signature.
RejectsEverySignature(key, data, signature) == FALSE

\* _verify_signature: recompute and compare.
VerifySignature(key, data, signature) == SignData(key, data) = signature

\* f"{file_path}:{file_hash}:{file_size}:{mtime}" as a sequence of tokens
RecordData(r) ==
    <<r.file_path, ":", r.file_hash, ":", ToString(r.file_size), ":", ToString(r.mtime)>>

\* f"{event_id}:{event_type}:{file_path}:{timestamp}"
EventData(e) ==
    <<e.event_id, ":", e.event_type, ":", e.file_path, ":", ToString(e.timestamp)>>

\* The row store_baseline's INSERT OR REPLACE writes for a record.
BaselineRow(key, r) ==
    [file_path |-> r.file_path,
     file_hash |-> r.file_hash,
     file_size |-> r.file_size,
     mtime |-> r.mtime,
     permissions |-> r.permissions,
     owner |-> r.owner,
     signature |-> SignData(key, RecordData(r))]

\* The FileRecord get_baseline builds from a row.
RowRecord(row) ==
    [file_path |-> row.file_path,
     file_hash |-> row.file_hash,
     file_size |-> row.file_size,
     mtime |-> row.mtime,
     permissions |-> row.permissions,
     owner |-> row.owner]

\* A check that lets every row through.
AcceptsEveryRow(key, row) == TRUE

\* get_baseline's check of one row
BaselineRowVerifies(key, row) ==
    VerifySignature(key, RecordData(row), row.signature)

\* ------------------------------------------------------------------- store
NoConn == "none"
NoPath == ""

\* A plain INSERT, which adds the row whatever the table holds.
InsertRow(table, row) == Append(table, row)

\* INSERT OR REPLACE on the UNIQUE file_path: the row of that path, if any, is
\* deleted and the new row gets a new rowid.
Upsert(table, row) ==
    SelectSeq(table, LAMBDA r : r.file_path # row.file_path) \o <<row>>

\* SQLite's write lock: a connection's INSERT needs the RESERVED lock, which it
\* gets only while no other connection holds it; after the busy timeout the
\* statement fails with OperationalError("database is locked").
WriteBlocked(conn, lock) == lock # NoConn /\ lock # conn

\* A close that loses the table's committed rows with the uncommitted ones.
CloseLosesRows(committed, uncommitted) == <<>>

\* A close that keeps the connection's uncommitted writes.
CloseKeepsWrites(committed, uncommitted) == uncommitted

\* _get_connection's finally: conn.close() without a commit discards the
\* connection's uncommitted writes; the committed table stays.
CloseWithoutCommit(committed, uncommitted) == committed

Min(S) == CHOOSE x \in S : \A y \in S : x <= y

\* The rows get_baseline selects.
SelectBaseline(table, file_path) ==
    IF file_path # NoPath
    THEN SelectSeq(table, LAMBDA r : r.file_path = file_path)
    ELSE table

\* get_baseline: every selected row is verified in turn; the first row that
\* fails raises ValueError naming it, otherwise the records are returned.
GetBaseline(table, key, file_path) ==
    LET rows == SelectBaseline(table, file_path)
        bad == {i \in 1..Len(rows) : ~BaselineRowVerifies(key, rows[i])}
    IN  IF bad # {}
        THEN [raised |-> TRUE, error_path |-> rows[Min(bad)].file_path, records |-> <<>>]
        ELSE [raised |-> FALSE, error_path |-> NoPath,
              records |-> [i \in 1..Len(rows) |-> RowRecord(rows[i])]]

\* f"{operation}:{table_name}:{record_id}:{timestamp}:{user}:{details_json or ''}"
AuditData(operation, table_name, record_id, timestamp, user, details) ==
    <<operation, ":", table_name, ":", record_id, ":", timestamp, ":", user, ":", details>>

\* The row _log_audit inserts: the INSERT names the columns (operation,
\* table_name, record_id, timestamp, user, details, signature) and passes the
\* values (operation, table_name, record_id, user, timestamp, details_json,
\* signature), so column timestamp receives user and column user the timestamp.
AuditRow(key, operation, table_name, record_id, timestamp, user, details) ==
    [operation |-> operation,
     table_name |-> table_name,
     record_id |-> record_id,
     timestamp |-> user,
     user |-> timestamp,
     details |-> details,
     signature |-> SignData(key, AuditData(operation, table_name, record_id,
                                           timestamp, user, details))]

\* datetime.utcnow().isoformat() at the time of an audit write
AuditNow(log) == ToString(Len(log) + 1)

\* json.dumps({"hash": ..., "size": ...})
BaselineDetails(r) == <<"hash", r.file_hash, "size", ToString(r.file_size)>>

\* ---------------------------------------------------------------- verifier
SeqRange(s) == {s[i] : i \in 1..Len(s)}

PathsOf(records) == {records[i].file_path : i \in 1..Len(records)}

\* {r.file_path: r for r in records}[p]: a later record of a path wins.
RecordOf(records, p) ==
    records[CHOOSE i \in 1..Len(records) :
                /\ records[i].file_path = p
                /\ \A j \in 1..Len(records) : records[j].file_path = p => j <= i]

PathSeq(records) == [i \in 1..Len(records) |-> records[i].file_path]

EmptyResults ==
    [total_files |-> 0, baseline_files |-> 0, created |-> <<>>, deleted |-> <<>>,
     modified |-> <<>>, permission_changed |-> <<>>, unchanged |-> <<>>]

\* A comparison whose permission test is an `if` of its own instead of an
\* `elif`: a file with another hash and other permission bits is listed twice.
ClassifyWithoutElif(current, base) ==
    LET cur == PathSeq(current)
        old == PathSeq(base)
        both(p) == p \in PathsOf(base)
    IN  [total_files |-> Cardinality(PathsOf(current)),
         baseline_files |-> Cardinality(PathsOf(base)),
         created |-> SelectSeq(cur, LAMBDA p : ~both(p)),
         deleted |-> SelectSeq(old, LAMBDA p : p \notin PathsOf(current)),
         modified |-> SelectSeq(cur, LAMBDA p :
             both(p) /\ RecordOf(current, p).file_hash # RecordOf(base, p).file_hash),
         permission_changed |-> SelectSeq(cur, LAMBDA p :
             /\ both(p)
             /\ RecordOf(current, p).permissions # RecordOf(base, p).permissions),
         unchanged |-> SelectSeq(cur, LAMBDA p :
             /\ both(p)
             /\ RecordOf(current, p).file_hash = RecordOf(base, p).file_hash
             /\ RecordOf(current, p).permissions = RecordOf(base, p).permissions)]

\* A comparison that looks at the permission bits before the hash.
ClassifyPermissionFirst(current, base) ==
    LET cur == PathSeq(current)
        old == PathSeq(base)
        both(p) == p \in PathsOf(base)
    IN  [total_files |-> Cardinality(PathsOf(current)),
         baseline_files |-> Cardinality(PathsOf(base)),
         created |-> SelectSeq(cur, LAMBDA p : ~both(p)),
         deleted |-> SelectSeq(old, LAMBDA p : p \notin PathsOf(current)),
         modified |-> SelectSeq(cur, LAMBDA p :
             /\ both(p)
             /\ RecordOf(current, p).permissions = RecordOf(base, p).permissions
             /\ RecordOf(current, p).file_hash # RecordOf(base, p).file_hash),
         permission_changed |-> SelectSeq(cur, LAMBDA p :
             /\ both(p)
             /\ RecordOf(current, p).permissions # RecordOf(base, p).permissions),
         unchanged |-> SelectSeq(cur, LAMBDA p :
             /\ both(p)
             /\ RecordOf(current, p).file_hash = RecordOf(base, p).file_hash
             /\ RecordOf(current, p).permissions = RecordOf(base, p).permissions)]

\* verify_baseline's comparison of the current records with the baseline's.
Classify(current, base) ==
    LET cur == PathSeq(current)
        old == PathSeq(base)
        both(p) == p \in PathsOf(base)
    IN  [total_files |-> Cardinality(PathsOf(current)),
         baseline_files |-> Cardinality(PathsOf(base)),
         created |-> SelectSeq(cur, LAMBDA p : ~both(p)),
         deleted |-> SelectSeq(old, LAMBDA p : p \notin PathsOf(current)),
         modified |-> SelectSeq(cur, LAMBDA p :
             both(p) /\ RecordOf(current, p).file_hash # RecordOf(base, p).file_hash),
         permission_changed |-> SelectSeq(cur, LAMBDA p :
             /\ both(p)
             /\ RecordOf(current, p).file_hash = RecordOf(base, p).file_hash
             /\ RecordOf(current, p).permissions # RecordOf(base, p).permissions),
         unchanged |-> SelectSeq(cur, LAMBDA p :
             /\ both(p)
             /\ RecordOf(current, p).file_hash = RecordOf(base, p).file_hash
             /\ RecordOf(current, p).permissions = RecordOf(base, p).permissions)]

\* verify_baseline: walk, get_baseline() (whose tamper error propagates), compare.
VerifyBaseline(root, patterns, tree, table, key) ==
    LET base == GetBaseline(table, key, NoPath)
    IN  IF base.raised
        THEN [raised |-> TRUE, error_path |-> base.error_path, results |-> EmptyResults]
        ELSE [raised |-> FALSE, error_path |-> NoPath,
              results |-> Classify(WalkRecords(root, patterns, tree), base.records)]

\* ------------------------------------------- Spec: the tree changes (environment)
\* A hash column that holds no hash (None).
NoHash == "NULL"

\* verify_integrity's report before any check has run
NoReport ==
    [baseline_integrity |-> TRUE, events_integrity |-> TRUE,
     audit_log_integrity |-> TRUE, errors |-> <<>>]

NoRet ==
    [op |-> "none", arg |-> "", patterns |-> <<>>, status |-> "none", error |-> "",
     error_path |-> NoPath, records |-> <<>>, results |-> EmptyResults,
     event_type |-> "", limit |-> 0, events |-> <<>>, report |-> NoReport,
     critical |-> FALSE, instance |-> 1, handed |-> FALSE,
     previous_hash |-> NoHash]

NoSnap ==
    [fs |-> [p \in Paths |-> Absent], root |-> "", patterns |-> <<>>,
     status |-> "none", storeEmpty |-> FALSE, tampered |-> FALSE, audit |-> 0,
     repeated |-> FALSE, rows |-> 0]

NoCall == [op |-> "none", root |-> "", patterns |-> <<>>, records |-> <<>>]

\* The trees the program may find when it starts: empty roots, or files
\* below both roots.
InitTrees ==
    {[p \in Paths |-> Absent],
     [p \in Paths |-> File("c1", DefaultPerm, 1)]}

\* A change of the tree: counted, and the outcome of the previous call is no
\* longer the latest step.
TreeChanged ==
    /\ fsOps + tampers < MaxEnvOps
    /\ fsOps' = fsOps + 1
    /\ ret' = NoRet
    /\ UNCHANGED <<storeVars, pc, call, queue, snap, monVars, sigVars>>

FsCreate(p, c) ==
    /\ ~fs[p].exists
    /\ fs' = [fs EXCEPT ![p] = File(c, DefaultPerm, 1)]
    /\ TreeChanged

FsRewrite(p, c) ==
    /\ fs[p].exists
    /\ fs[p].mtime < MaxMtime
    /\ fs' = [fs EXCEPT ![p].content = c, ![p].mtime = @ + 1]
    /\ TreeChanged

FsDelete(p) ==
    /\ fs[p].exists
    /\ fs' = [fs EXCEPT ![p] = Absent]
    /\ TreeChanged

FsChmod(p, perm) ==
    /\ fs[p].exists
    /\ fs[p].permissions # perm
    /\ fs' = [fs EXCEPT ![p].permissions = perm]
    /\ TreeChanged

\* ------------------------------------------ Spec: direct changes of storage
\* Someone without the instance's key writes table baseline directly. The
\* signature column can only hold what that party can compute.
ForgedRow(p) ==
    BaselineRow(AttackerKey,
                [file_path |-> p, file_hash |-> "h1", file_size |-> 1, mtime |-> 1,
                 permissions |-> DefaultPerm, owner |-> Owner])

StorageChanged ==
    /\ dbLock = NoConn
    /\ fsOps + tampers < MaxEnvOps
    /\ tampers' = tampers + 1
    /\ snap' = [snap EXCEPT !.tampered = TRUE]
    /\ ret' = NoRet
    /\ UNCHANGED <<events, audit_log, dbLock, txn, pc, call, queue,
                   fsVars, monVars, sigVars>>

TamperInsert(p) ==
    /\ baseline' = Upsert(baseline, ForgedRow(p))
    /\ StorageChanged

TamperUpdate(i, h) ==
    /\ i \in 1..Len(baseline)
    /\ h # baseline[i].file_hash
    /\ baseline' = [baseline EXCEPT ![i].file_hash = h]
    /\ StorageChanged

TamperDelete(i) ==
    /\ i \in 1..Len(baseline)
    /\ baseline' = SelectSeq(baseline, LAMBDA r : r.file_path # baseline[i].file_path)
    /\ StorageChanged

\* --------------------------------------------- Spec: BaselineManager's calls
StoreIsEmpty == baseline = <<>> /\ events = <<>> /\ audit_log = <<>>

\* create_baseline without the existence check: os.walk of a missing root
\* yields nothing and the call returns an empty list.
CreateBaselineWithoutCheck(patterns) ==
    /\ pc = "idle"
    /\ ret' = [NoRet EXCEPT !.op = "create_baseline", !.arg = MissingRoot,
                            !.patterns = patterns, !.status = "returned"]
    /\ UNCHANGED <<fsVars, storeVars, pc, call, queue, snap, monVars, sigVars>>

\* create_baseline on a path that does not exist: ValueError before anything else.
CreateBaselineMissing(patterns) ==
    /\ pc = "idle"
    /\ ret' = [NoRet EXCEPT !.op = "create_baseline", !.arg = MissingRoot,
                            !.patterns = patterns, !.status = "raised",
                            !.error = "ValueError: Path does not exist"]
    /\ UNCHANGED <<fsVars, storeVars, pc, call, queue, snap, monVars, sigVars>>

\* create_baseline: the walk, then store_baseline opens its connection.
CreateBaselineCall(root, patterns, repeated) ==
    /\ pc = "idle"
    /\ LET records == WalkRecords(root, patterns, fs)
       IN  /\ call' = [op |-> "create_baseline", root |-> root, patterns |-> patterns,
                       records |-> records]
           /\ queue' = records
    /\ txn' = baseline
    /\ pc' = "sb_loop"
    /\ snap' = [fs |-> fs, root |-> root, patterns |-> patterns, status |-> "running",
                storeEmpty |-> StoreIsEmpty, tampered |-> FALSE,
                audit |-> Len(audit_log),
                repeated |-> repeated, rows |-> Len(baseline)]
    /\ ret' = NoRet
    /\ UNCHANGED <<fsVars, baseline, events, audit_log, tampers, dbLock,
                   monVars, sigVars>>

CreateBaseline(root, patterns) == CreateBaselineCall(root, patterns, FALSE)

\* create_baseline called again with the arguments of the call that has just
\* ended, on the tree that call walked.
CreateBaselineAgain(root, patterns) ==
    /\ ret.op = "create_baseline"
    /\ ret.arg = root
    /\ ret.patterns = patterns
    /\ snap.status \in {"returned", "raised"}
    /\ snap.fs = fs
    /\ CreateBaselineCall(root, patterns, TRUE)

\* The exception of a store operation leaves through _get_connection's
\* finally, and through create_baseline, which does not catch it.
StoreBaselineRaise(error) ==
    /\ baseline' = CloseWithoutCommit(baseline, txn)
    /\ txn' = <<>>
    /\ dbLock' = NoConn
    /\ queue' = <<>>
    /\ pc' = "idle"
    /\ call' = NoCall
    /\ ret' = [NoRet EXCEPT !.op = call.op, !.arg = call.root,
                            !.patterns = call.patterns, !.status = "raised",
                            !.error = error]
    /\ snap' = [snap EXCEPT !.status = "raised"]
    /\ UNCHANGED <<audit_log, events, tampers>>

\* store_baseline's loop body, first half: INSERT OR REPLACE on the
\* operation's connection, which opens its write transaction.
StoreBaselineInsert ==
    /\ pc = "sb_loop"
    /\ queue # <<>>
    /\ IF WriteBlocked("c1", dbLock)
       THEN StoreBaselineRaise("OperationalError: database is locked")
       ELSE /\ dbLock' = "c1"
            /\ txn' = Upsert(txn, BaselineRow(SecretKey, Head(queue)))
            /\ pc' = "sb_audit"
            /\ UNCHANGED <<baseline, events, audit_log, tampers,
                           call, queue, ret, snap>>
    /\ UNCHANGED <<fsVars, monVars, sigVars>>

\* store_baseline's loop body, second half: _log_audit opens a second
\* connection, inserts the audit row there and commits it.
StoreBaselineAudit ==
    /\ pc = "sb_audit"
    /\ IF WriteBlocked("c2", dbLock)
       THEN StoreBaselineRaise("OperationalError: database is locked")
       ELSE /\ audit_log' = Append(audit_log,
                AuditRow(SecretKey, "INSERT_BASELINE", "baseline", Head(queue).file_path,
                         AuditNow(audit_log), "system", BaselineDetails(Head(queue))))
            /\ queue' = Tail(queue)
            /\ pc' = "sb_loop"
            /\ UNCHANGED <<baseline, events, tampers, dbLock, txn,
                           call, ret, snap>>
    /\ UNCHANGED <<fsVars, monVars, sigVars>>

\* store_baseline after the loop: conn.commit(); create_baseline returns the records.
StoreBaselineCommit ==
    /\ pc = "sb_loop"
    /\ queue = <<>>
    /\ baseline' = txn
    /\ txn' = <<>>
    /\ dbLock' = NoConn
    /\ pc' = "idle"
    /\ call' = NoCall
    /\ ret' = [NoRet EXCEPT !.op = call.op, !.arg = call.root,
                            !.patterns = call.patterns, !.status = "returned",
                            !.records = call.records]
    /\ snap' = [snap EXCEPT !.status = "returned"]
    /\ UNCHANGED <<events, audit_log, tampers, queue>>
    /\ UNCHANGED <<fsVars, monVars, sigVars>>

\* get_baseline(file_path)
GetBaselineCall(file_path) ==
    /\ pc = "idle"
    /\ LET r == GetBaseline(baseline, SecretKey, file_path)
       IN  ret' = [NoRet EXCEPT !.op = "get_baseline", !.arg = file_path,
                       !.status = IF r.raised THEN "raised" ELSE "returned",
                       !.error = IF r.raised THEN "ValueError: Tampering detected"
                                 ELSE "",
                       !.error_path = r.error_path,
                       !.records = r.records]
    /\ UNCHANGED <<fsVars, storeVars, pc, call, queue, snap, monVars, sigVars>>

\* A verification that drops the stored records of the files it finds deleted.
VerifyBaselineSyncs(root, patterns) ==
    /\ pc = "idle"
    /\ LET r == VerifyBaseline(root, patterns, fs, baseline, SecretKey)
       IN  /\ ret' = [NoRet EXCEPT !.op = "verify_baseline", !.arg = root,
                           !.patterns = patterns,
                           !.status = IF r.raised THEN "raised" ELSE "returned",
                           !.error_path = r.error_path,
                           !.results = r.results]
           /\ baseline' = SelectSeq(baseline,
                               LAMBDA row : row.file_path \notin SeqRange(r.results.deleted))
    /\ UNCHANGED <<fsVars, events, audit_log, tampers, dbLock, txn, pc, call, queue,
                   snap, monVars, sigVars>>

\* verify_baseline(path, exclude_patterns)
VerifyBaselineCall(root, patterns) ==
    /\ pc = "idle"
    /\ LET r == VerifyBaseline(root, patterns, fs, baseline, SecretKey)
       IN  ret' = [NoRet EXCEPT !.op = "verify_baseline", !.arg = root,
                       !.patterns = patterns,
                       !.status = IF r.raised THEN "raised" ELSE "returned",
                       !.error = IF r.raised THEN "ValueError: Tampering detected"
                                 ELSE "",
                       !.error_path = r.error_path,
                       !.results = r.results]
    /\ UNCHANGED <<fsVars, storeVars, pc, call, queue, snap, monVars, sigVars>>

\* ------------------------------------------------------------- event funnel
NoInt == -1

EventTypes == {"created", "modified", "deleted", "moved"}

NoMetadata == [alert_sent |-> FALSE, alert_timestamp |-> 0]

\* FileChangeHandler._process_event: the FileEvent handed to the callback.
\* Created and modified events carry the fingerprint when from_path succeeds.
ProcessEvent(p, kind, tree, n) ==
    LET withRecord == kind \in {"modified", "created"} /\ ~FromPathRaises(tree[p])
        r == FromPath(p, tree[p])
    IN  [event_id |-> ToString(n),
         event_type |-> kind,
         file_path |-> p,
         timestamp |-> n,
         agent_id |-> "default",
         previous_hash |-> NoHash,
         current_hash |-> IF withRecord THEN r.file_hash ELSE NoHash,
         file_size |-> IF withRecord THEN r.file_size ELSE NoInt,
         permissions |-> IF withRecord THEN r.permissions ELSE NoInt,
         owner |-> IF withRecord THEN r.owner ELSE NoHash,
         metadata |-> NoMetadata]

NoEvent == ProcessEvent(NoPath, "none", [p \in {NoPath} |-> Absent], 0)

\* The row store_event inserts: metadata is serialised as it is at that moment.
EventRow(key, e) ==
    [event_id |-> e.event_id,
     event_type |-> e.event_type,
     file_path |-> e.file_path,
     timestamp |-> e.timestamp,
     agent_id |-> e.agent_id,
     previous_hash |-> e.previous_hash,
     current_hash |-> e.current_hash,
     file_size |-> e.file_size,
     permissions |-> e.permissions,
     owner |-> e.owner,
     metadata |-> e.metadata,
     signature |-> SignData(key, EventData(e))]

\* json.dumps({"type": ..., "file_path": ...})
EventDetails(e) == <<"type", e.event_type, "file_path", e.file_path>>

\* store_event run without interleaving: INSERT on the operation's
\* connection "e1" (which takes the write lock), _log_audit on a second
\* connection "e2", conn.commit(). An exception closes the connection
\* uncommitted. Both connections are the call's own, not store_baseline's.
StoreEvent(e, evs, log, lock, key) ==
    IF WriteBlocked("e1", lock)
    THEN [raised |-> TRUE, events |-> evs, audit_log |-> log]
    ELSE IF WriteBlocked("e2", "e1")
         THEN [raised |-> TRUE,
               events |-> CloseWithoutCommit(evs, Append(evs, EventRow(key, e))),
               audit_log |-> log]
         ELSE [raised |-> FALSE,
               events |-> Append(evs, EventRow(key, e)),
               audit_log |-> Append(log,
                   AuditRow(key, "INSERT_EVENT", "events", e.event_id,
                            AuditNow(log), "system", EventDetails(e)))]

\* FileMonitor._is_critical_change on the model's paths: the suffix is in the
\* critical set, or the lower-cased path contains a critical name.
CriticalExtensions == {".exe", ".dll", ".so", ".dylib", ".conf", ".config", ".ini"}

\* The characters of a path.
Chars(p) ==
    CASE p = "r1/a.txt" -> <<"r", "1", "/", "a", ".", "t", "x", "t">>
      [] p = "r1/b.conf" -> <<"r", "1", "/", "b", ".", "c", "o", "n", "f">>
      [] p = "r2/c.tmp" -> <<"r", "2", "/", "c", ".", "t", "m", "p">>
      [] p = "etc/motd" -> <<"e", "t", "c", "/", "m", "o", "t", "d">>
      [] p = "r1/cabinet.txt" ->
            <<"r", "1", "/", "c", "a", "b", "i", "n", "e", "t", ".", "t", "x", "t">>
      [] p = "Windows/System32/x.txt" ->
            <<"W", "i", "n", "d", "o", "w", "s", "/", "S", "y", "s", "t", "e", "m",
              "3", "2", "/", "x", ".", "t", "x", "t">>
      [] p = "r1/D.DLL" -> <<"r", "1", "/", "D", ".", "D", "L", "L">>
      [] OTHER -> <<>>

\* str.lower() on one character
LowerChar(c) ==
    CASE c = "W" -> "w"
      [] c = "S" -> "s"
      [] c = "D" -> "d"
      [] c = "L" -> "l"
      [] OTHER -> c

Lower(cs) == [i \in 1..Len(cs) |-> LowerChar(cs[i])]

\* needle in hay
Contains(hay, needle) ==
    \E i \in 0..(Len(hay) - Len(needle)) : SubSeq(hay, i + 1, i + Len(needle)) = needle

CriticalPaths ==
    {<<"e", "t", "c">>, <<"b", "i", "n">>, <<"s", "b", "i", "n">>,
     <<"u", "s", "r", "/", "b", "i", "n">>, <<"u", "s", "r", "/", "s", "b", "i", "n">>,
     <<"W", "i", "n", "d", "o", "w", "s", "/", "S", "y", "s", "t", "e", "m", "3", "2">>}

ContainsCriticalName(p) ==
    \E critical \in CriticalPaths : Contains(Lower(Chars(p)), critical)

IsCriticalChange(e) ==
    Suffix(e.file_path) \in CriticalExtensions \/ ContainsCriticalName(e.file_path)

\* _send_alert: the alert flag and timestamp go into the event's metadata.
SendAlert(e, now) ==
    [e EXCEPT !.metadata = [alert_sent |-> TRUE, alert_timestamp |-> now]]

\* A handler that leaves the event's previous_hash as it was built.
KeepPreviousHash(e, baseline_records) == e

\* `if baseline_records: file_event.previous_hash = baseline_records[0].file_hash`
LinkPreviousHash(e, baseline_records) ==
    IF baseline_records # <<>>
    THEN [e EXCEPT !.previous_hash = baseline_records[1].file_hash]
    ELSE e

\* _handle_file_event: previous-hash lookup, store_event, then the critical
\* check and _send_alert; any exception is caught and logged.
\*   persist  the event as it was handed to store_event (NoEvent if not reached)
\*   final    the event object when the handler returns
HandleFileEvent(e, table, evs, log, lock, key, now) ==
    LET base == GetBaseline(table, key, e.file_path)
        e1 == LinkPreviousHash(e, base.records)
        st == StoreEvent(e1, evs, log, lock, key)
    IN  IF base.raised
        THEN [persist |-> NoEvent, final |-> e, stored |-> FALSE,
              error |-> "ValueError: Tampering detected",
              events |-> evs, audit_log |-> log]
        ELSE IF st.raised
             THEN [persist |-> e1, final |-> e1, stored |-> FALSE,
                   error |-> "OperationalError: database is locked",
                   events |-> st.events, audit_log |-> st.audit_log]
             ELSE [persist |-> e1,
                   final |-> IF IsCriticalChange(e1) THEN SendAlert(e1, now) ELSE e1,
                   stored |-> TRUE, error |-> "",
                   events |-> st.events, audit_log |-> st.audit_log]

\* store_event(event) called on the DatabaseManager directly.
StoreEventCall(p, kind) ==
    /\ pc = "idle"
    /\ LET e == ProcessEvent(p, kind, fs, Len(events) + 1)
           st == StoreEvent(e, events, audit_log, dbLock, SecretKey)
       IN  /\ events' = st.events
           /\ audit_log' = st.audit_log
           /\ ret' = [NoRet EXCEPT !.op = "store_event", !.arg = p,
                           !.status = IF st.raised THEN "raised" ELSE "returned",
                           !.error = IF st.raised
                                     THEN "OperationalError: database is locked"
                                     ELSE ""]
    /\ UNCHANGED <<fsVars, baseline, tampers, dbLock, txn, pc, call, queue, snap,
                   monVars, sigVars>>

\* The paths _is_critical_change is called on: the tree's, and paths with a
\* sensitive directory, with "bin" inside a file name, and with an
\* upper-case extension.
CriticalInputs ==
    Paths \cup {"etc/motd", "r1/cabinet.txt", "Windows/System32/x.txt", "r1/D.DLL"}

\* _is_critical_change(file_event) called with an event for path p.
IsCriticalChangeCall(p) ==
    /\ pc = "idle"
    /\ ret' = [NoRet EXCEPT !.op = "_is_critical_change", !.arg = p,
                            !.status = "returned",
                            !.critical = IsCriticalChange([NoEvent EXCEPT !.file_path = p])]
    /\ UNCHANGED <<fsVars, storeVars, pc, call, queue, snap, monVars, sigVars>>

\* _handle_file_event(file_event) called with the event of a change of p;
\* it catches every exception and returns None.
HandleFileEventCall(p, kind) ==
    /\ pc = "idle"
    /\ LET e == ProcessEvent(p, kind, fs, Len(events) + 1)
           h == HandleFileEvent(e, baseline, events, audit_log, dbLock, SecretKey,
                                Len(events) + 1)
       IN  /\ events' = h.events
           /\ audit_log' = h.audit_log
           /\ ret' = [NoRet EXCEPT !.op = "_handle_file_event", !.arg = p,
                           !.event_type = kind, !.status = "returned",
                           !.error = h.error,
                           !.handed = h.persist # NoEvent,
                           !.previous_hash = h.persist.previous_hash]
    /\ UNCHANGED <<fsVars, baseline, tampers, dbLock, txn, pc, call, queue, snap,
                   monVars, sigVars>>

\* ------------------------------------------------- SpecMon: FileMonitor
Callers == {"t1", "t2"}
NoObserver == 0
NoHandler == 0
\* How many Observer objects one behaviour creates.
MaxObservers == 2
ObserverIds == 1..MaxObservers

NoInflight == [path |-> NoPath, kind |-> "none"]

FreshObserver ==
    [created |-> FALSE, started |-> FALSE, stopped |-> FALSE, watches |-> {},
     inflight |-> NoInflight]

\* The observer's thread dispatches events: started and not told to stop.
Running(o) == o.started /\ ~o.stopped

\* The monitoring engines that are active.
ActiveObservers == {i \in ObserverIds : Running(observers[i])}
PollingLoops == {t \in Callers : mpc[t] = "poll_loop"}
ActiveEngines == Cardinality(ActiveObservers) + Cardinality(PollingLoops)

\* The path lists a caller passes; monitor_paths of the config is [].
PathLists == {<<>>, <<MissingRoot, "r1">>}

\* An existence test that finds every path.
EveryRootExists(root) == TRUE

\* os.path.exists on a watch root
RootExists(root) == root \in Roots

StartPcs == {"start_handler", "start_observer", "start_schedule", "start_start",
             "start_flag"}

\* No start_monitoring call is under way on a thread other than t.
NoStartUnderWay(t) == \A u \in Callers \ {t} : mpc[u] \notin StartPcs

NoMCall == [monitoring |-> FALSE, paths |-> <<>>]

NoMRet == [op |-> "none", monitoring |-> FALSE, result |-> "none"]

\* A call of thread t ends: with a result, or with the exception it raises.
MonReturn(t, op, monitoring, result) ==
    /\ mret' = [op |-> op, monitoring |-> monitoring, result |-> result]
    /\ mpc' = [mpc EXCEPT ![t] = "idle"]
    /\ mcall' = [mcall EXCEPT ![t] = NoMCall]

\* A call of thread t goes on to its next statement.
MonGoto(t, next) ==
    /\ mpc' = [mpc EXCEPT ![t] = next]
    /\ UNCHANGED <<mcall, mret>>

NoHandled ==
    [persist |-> NoEvent, final |-> NoEvent, stored |-> FALSE,
     error |-> "", afterStop |-> FALSE, monitoring |-> FALSE, concurrent |-> FALSE]

\* A guard that never finds the monitor running.
GuardNeverHolds(flag) == FALSE

\* start_monitoring's guard: `if self.is_monitoring: ... return`
AlreadyMonitoring(flag) == flag

\* stop_monitoring's guard: `if not self.is_monitoring: ... return`
NotMonitoring(flag) == ~flag

MonUnchanged == UNCHANGED <<fsVars, storeVars, apiVars, sigVars>>

\* A check that finds a path list in every call.
PathsAlwaysGiven(paths) == FALSE

\* `monitor_paths = paths or self.monitor_paths; if not monitor_paths: raise`
\* with the configured monitor_paths empty.
NoPathsGiven(paths) == paths = <<>>

\* A coordinator that keeps its reference to the stopped observer.
StopKeepsObserver(t) ==
    /\ mpc[t] = "stop_clear"
    /\ mpc' = [mpc EXCEPT ![t] = "stop_flag"]
    /\ UNCHANGED <<mcall, mret, is_monitoring, observer, handler, observers,
                   polling, ticks, notifies, handled, stopRet>>
    /\ MonUnchanged

\* start_monitoring, first lines: the guard and the path list.
StartCheck(t, paths) ==
    /\ mpc[t] = "idle"
    /\ stopRet' = FALSE
    /\ IF AlreadyMonitoring(is_monitoring)
       THEN MonReturn(t, "start_monitoring", is_monitoring, "noop")
       ELSE IF NoPathsGiven(paths)
            THEN MonReturn(t, "start_monitoring", is_monitoring, "raised ValueError")
            ELSE /\ mpc' = [mpc EXCEPT ![t] = "start_handler"]
                 /\ mcall' = [mcall EXCEPT ![t] = [monitoring |-> is_monitoring,
                                                   paths |-> paths]]
                 /\ mret' = NoMRet
    /\ UNCHANGED <<is_monitoring, observer, handler, observers, polling, ticks,
                   notifies, handled>>
    /\ MonUnchanged

\* self.handler = FileChangeHandler(self._handle_file_event)
StartHandler(t) ==
    /\ mpc[t] = "start_handler"
    /\ handler < MaxObservers
    /\ handler' = handler + 1
    /\ MonGoto(t, "start_observer")
    /\ UNCHANGED <<is_monitoring, observer, observers, polling, ticks,
                   notifies, handled, stopRet>>
    /\ MonUnchanged

\* self.observer = Observer()
StartObserver(t) ==
    /\ mpc[t] = "start_observer"
    /\ \E i \in ObserverIds :
        /\ ~observers[i].created
        /\ \A j \in ObserverIds : j < i => observers[j].created
        /\ observers' = [observers EXCEPT ![i].created = TRUE]
        /\ observer' = i
    /\ MonGoto(t, "start_schedule")
    /\ UNCHANGED <<is_monitoring, handler, polling, ticks, notifies,
                   handled, stopRet>>
    /\ MonUnchanged

\* for path in monitor_paths: self.observer.schedule(...) for the existing ones
StartSchedule(t) ==
    /\ mpc[t] = "start_schedule"
    /\ LET paths == mcall[t].paths
           roots == {paths[i] : i \in 1..Len(paths)}
           existing == {r \in roots : RootExists(r)}
       IN  IF observer = NoObserver /\ existing # {}
           THEN /\ MonReturn(t, "start_monitoring", mcall[t].monitoring,
                             "raised AttributeError")
                /\ observers' = observers
           ELSE /\ observers' = IF observer = NoObserver THEN observers
                                ELSE [observers EXCEPT ![observer].watches = @ \cup existing]
                /\ MonGoto(t, "start_start")
    /\ UNCHANGED <<is_monitoring, observer, handler, polling, ticks, notifies,
                   handled, stopRet>>
    /\ MonUnchanged

\* self.observer.start(): a thread can be started once.
StartStart(t) ==
    /\ mpc[t] = "start_start"
    /\ IF observer = NoObserver
       THEN /\ MonReturn(t, "start_monitoring", mcall[t].monitoring,
                         "raised AttributeError")
            /\ observers' = observers
       ELSE IF observers[observer].started
            THEN /\ MonReturn(t, "start_monitoring", mcall[t].monitoring,
                              "raised RuntimeError")
                 /\ observers' = observers
            ELSE /\ observers' = [observers EXCEPT ![observer].started = TRUE]
                 /\ MonGoto(t, "start_flag")
    /\ UNCHANGED <<is_monitoring, observer, handler, polling, ticks, notifies,
                   handled, stopRet>>
    /\ MonUnchanged

\* self.is_monitoring = True, and start_monitoring returns.
StartFlag(t) ==
    /\ mpc[t] = "start_flag"
    /\ is_monitoring' = TRUE
    /\ MonReturn(t, "start_monitoring", mcall[t].monitoring, "ok")
    /\ UNCHANGED <<observer, handler, observers, polling, ticks, notifies,
                   handled, stopRet>>
    /\ MonUnchanged

\* stop_monitoring, first lines: the guard.
StopCheck(t) ==
    /\ mpc[t] = "idle"
    /\ IF NotMonitoring(is_monitoring)
       THEN /\ MonReturn(t, "stop_monitoring", is_monitoring, "noop")
            /\ stopRet' = NoStartUnderWay(t)
       ELSE /\ mpc' = [mpc EXCEPT ![t] = "stop_stop"]
            /\ mcall' = [mcall EXCEPT ![t] = [monitoring |-> is_monitoring,
                                              paths |-> <<>>]]
            /\ mret' = NoMRet
            /\ stopRet' = stopRet
    /\ UNCHANGED <<is_monitoring, observer, handler, observers, polling, ticks,
                   notifies, handled>>
    /\ MonUnchanged

\* if self.observer: self.observer.stop()
StopStop(t) ==
    /\ mpc[t] = "stop_stop"
    /\ IF observer = NoObserver
       THEN /\ MonGoto(t, "stop_flag")
            /\ observers' = observers
       ELSE /\ MonGoto(t, "stop_join")
            /\ observers' = [observers EXCEPT ![observer].stopped = TRUE]
    /\ UNCHANGED <<is_monitoring, observer, handler, polling, ticks,
                   notifies, handled, stopRet>>
    /\ MonUnchanged

\* self.observer.join(): waits until the observer's thread has ended, that
\* is until the event it is dispatching has been handled; joining a thread
\* that was never started is a RuntimeError.
StopJoin(t) ==
    /\ mpc[t] = "stop_join"
    /\ IF observer = NoObserver
       THEN MonReturn(t, "stop_monitoring", mcall[t].monitoring, "raised AttributeError")
       ELSE IF ~observers[observer].started
            THEN MonReturn(t, "stop_monitoring", mcall[t].monitoring,
                           "raised RuntimeError")
            ELSE /\ observers[observer].stopped
                 /\ observers[observer].inflight = NoInflight
                 /\ MonGoto(t, "stop_clear")
    /\ UNCHANGED <<is_monitoring, observer, handler, observers, polling, ticks,
                   notifies, handled, stopRet>>
    /\ MonUnchanged

\* self.observer = None
StopClear(t) ==
    /\ mpc[t] = "stop_clear"
    /\ observer' = NoObserver
    /\ MonGoto(t, "stop_flag")
    /\ UNCHANGED <<is_monitoring, handler, observers, polling, ticks,
                   notifies, handled, stopRet>>
    /\ MonUnchanged

\* self.is_monitoring = False, and stop_monitoring returns.
StopFlag(t) ==
    /\ mpc[t] = "stop_flag"
    /\ is_monitoring' = FALSE
    /\ MonReturn(t, "stop_monitoring", mcall[t].monitoring, "ok")
    /\ stopRet' = NoStartUnderWay(t)
    /\ UNCHANGED <<observer, handler, observers, polling, ticks, notifies,
                   handled>>
    /\ MonUnchanged

\* A running observer's thread picks up a change notification for a file
\* below one of its watches and calls the handler's on_<kind>.
Deliver(i, p, kind) ==
    /\ Running(observers[i])
    /\ RootOf(p) \in observers[i].watches
    /\ observers[i].inflight = NoInflight
    /\ notifies < MaxNotify
    /\ notifies' = notifies + 1
    /\ observers' = [observers EXCEPT ![i].inflight = [path |-> p, kind |-> kind]]
    /\ handled' = NoHandled
    /\ UNCHANGED <<is_monitoring, observer, handler, mpc, mcall, mret, polling, ticks,
                   stopRet>>
    /\ MonUnchanged

\* A notification for a directory: on_<kind> returns at `if not event.is_directory`.
DeliverDirectory(i, root) ==
    /\ Running(observers[i])
    /\ root \in observers[i].watches
    /\ observers[i].inflight = NoInflight
    /\ notifies < MaxNotify
    /\ notifies' = notifies + 1
    /\ handled' = NoHandled
    /\ UNCHANGED <<is_monitoring, observer, handler, observers, mpc, mcall, mret,
                   polling, ticks, stopRet>>
    /\ MonUnchanged

\* An exception that leaves the handler ends the thread it was raised on.
ThreadEnds(o) == [o EXCEPT !.inflight = NoInflight, !.stopped = TRUE]

\* `except Exception as e: logger.error(...)` in _process_event and in
\* _handle_file_event: the failure is logged and the handler returns, so the
\* observer's thread goes back to its event queue.
AfterHandlerError(o) == [o EXCEPT !.inflight = NoInflight]

\* The handler runs on the observer's thread: _process_event builds the
\* FileEvent and the callback _handle_file_event takes it through the funnel.
Handle(i) ==
    /\ observers[i].inflight # NoInflight
    /\ LET n == observers[i].inflight
           e == ProcessEvent(n.path, n.kind, fs, notifies)
           h == HandleFileEvent(e, baseline, events, audit_log, dbLock, SecretKey,
                                notifies)
       IN  /\ events' = h.events
           /\ audit_log' = h.audit_log
           /\ handled' = [persist |-> h.persist, final |-> h.final,
                          stored |-> h.stored, error |-> h.error,
                          afterStop |-> stopRet, monitoring |-> is_monitoring,
                          concurrent |-> pc # "idle"]
           /\ observers' = [observers EXCEPT ![i] =
                                IF h.error # "" THEN AfterHandlerError(@)
                                ELSE [@ EXCEPT !.inflight = NoInflight]]
    /\ UNCHANGED <<is_monitoring, observer, handler, mpc, mcall, mret, polling, ticks,
                   notifies, stopRet>>
    /\ UNCHANGED <<fsVars, baseline, tampers, dbLock, txn, apiVars, sigVars>>

\* FileMonitor._should_exclude(file_path) calls self._should_exclude with two
\* arguments, which the one-parameter method rejects: TypeError.
MonitorShouldExcludeRaises(p) == TRUE

\* _poll_directory(path): the walk stops at the first file, whose exclusion
\* check raises; the exception is caught and logged. Returns the paths handed
\* to _handle_file_change and whether an error was logged.
PollDirectory(root, tree) ==
    LET files == Walk(root, tree)
        firstBad == {i \in 1..Len(files) : MonitorShouldExcludeRaises(files[i])}
        upto == IF firstBad = {} THEN Len(files) ELSE Min(firstBad) - 1
    IN  [changed |-> SubSeq(files, 1, upto), error |-> firstBad # {}]

\* run_polling_monitor on the caller's thread: the path check, then the loop,
\* which only a KeyboardInterrupt ends.
PollStart(t, paths) ==
    /\ mpc[t] = "idle"
    /\ IF NoPathsGiven(paths)
       THEN MonReturn(t, "run_polling_monitor", is_monitoring, "raised ValueError")
       ELSE /\ mpc' = [mpc EXCEPT ![t] = "poll_loop"]
            /\ mcall' = [mcall EXCEPT ![t] = [monitoring |-> FALSE, paths |-> paths]]
            /\ mret' = NoMRet
    /\ UNCHANGED <<is_monitoring, observer, handler, observers, polling, ticks,
                   notifies, handled, stopRet>>
    /\ MonUnchanged

\* One pass of the loop: every existing path is polled, then time.sleep.
PollTick(t) ==
    /\ mpc[t] = "poll_loop"
    /\ ticks < MaxTicks
    /\ ticks' = ticks + 1
    /\ LET paths == mcall[t].paths
           roots == {paths[i] : i \in 1..Len(paths)}
           polled == {r \in roots : RootExists(r)}
       IN  polling' =
               [errors |-> Cardinality({r \in polled : PollDirectory(r, fs).error}),
                funnelled |-> Cardinality(UNION {SeqRange(PollDirectory(r, fs).changed)
                                                 : r \in polled})]
    /\ UNCHANGED <<is_monitoring, observer, handler, observers, mpc, mcall, mret,
                   notifies, handled, stopRet>>
    /\ MonUnchanged

\* A further pass of the loop once MaxTicks passes have been counted: the
\* `while True` goes on, and the count of passes starts over.
PollTickAgain(t) ==
    /\ mpc[t] = "poll_loop"
    /\ ticks = MaxTicks
    /\ ticks' = 0
    /\ UNCHANGED <<is_monitoring, observer, handler, observers, mpc, mcall, mret,
                   polling, notifies, handled, stopRet>>
    /\ MonUnchanged

\* KeyboardInterrupt (Ctrl-C, from outside the program) reaches the loop:
\* `except KeyboardInterrupt` logs it and run_polling_monitor returns.
PollInterrupt(t) ==
    /\ mpc[t] = "poll_loop"
    /\ MonReturn(t, "run_polling_monitor", is_monitoring, "interrupted")
    /\ UNCHANGED <<is_monitoring, observer, handler, observers, polling, ticks,
                   notifies, handled, stopRet>>
    /\ MonUnchanged

\* ------------------------------------------------------------- get_events
\* A query without ORDER BY: the rows in rowid order.
RowidOrder(rows) == rows

\* ORDER BY timestamp DESC (rows of equal timestamp stay in rowid order)
ComesBefore(rows, i, j) ==
    \/ rows[i].timestamp > rows[j].timestamp
    \/ rows[i].timestamp = rows[j].timestamp /\ i < j

OrderByTimestampDesc(rows) ==
    LET rowids == SortSeq([i \in 1..Len(rows) |-> i],
                          LAMBDA i, j : ComesBefore(rows, i, j))
    IN  [k \in 1..Len(rows) |-> rows[rowids[k]]]

NoType == ""
NoLimit == 0

EventRowVerifies(key, row) == VerifySignature(key, EventData(row), row.signature)

\* The FileEvent get_events builds from a row.
RowEvent(row) ==
    [event_id |-> row.event_id,
     event_type |-> row.event_type,
     file_path |-> row.file_path,
     timestamp |-> row.timestamp,
     agent_id |-> row.agent_id,
     previous_hash |-> row.previous_hash,
     current_hash |-> row.current_hash,
     file_size |-> row.file_size,
     permissions |-> row.permissions,
     owner |-> row.owner,
     metadata |-> row.metadata]

\* get_events: filter, newest first, LIMIT, then every row is verified in
\* turn; the first row that fails raises ValueError naming its event id.
GetEvents(table, key, file_path, event_type, limit) ==
    LET sel == SelectSeq(table, LAMBDA r :
                   /\ (file_path # NoPath => r.file_path = file_path)
                   /\ (event_type # NoType => r.event_type = event_type))
        ordered == OrderByTimestampDesc(sel)
        rows == IF limit # NoLimit /\ limit < Len(ordered)
                THEN SubSeq(ordered, 1, limit)
                ELSE ordered
        bad == {i \in 1..Len(rows) : ~EventRowVerifies(key, rows[i])}
    IN  IF bad # {}
        THEN [raised |-> TRUE, error_id |-> rows[Min(bad)].event_id, events |-> <<>>]
        ELSE [raised |-> FALSE, error_id |-> "",
              events |-> [i \in 1..Len(rows) |-> RowEvent(rows[i])]]

\* get_events(file_path, event_type, limit)
GetEventsCall(file_path, event_type, limit) ==
    /\ pc = "idle"
    /\ LET r == GetEvents(events, SecretKey, file_path, event_type, limit)
       IN  ret' = [NoRet EXCEPT !.op = "get_events", !.arg = file_path,
                       !.event_type = event_type, !.limit = limit,
                       !.status = IF r.raised THEN "raised" ELSE "returned",
                       !.error = IF r.raised THEN "ValueError: Tampering detected"
                                 ELSE "",
                       !.error_path = r.error_id,
                       !.events = r.events]
    /\ UNCHANGED <<fsVars, storeVars, pc, call, queue, snap, monVars, sigVars>>

\* --------------------------------------------------------- verify_integrity
\* `events = self.get_events(limit=100)`
IntegrityLimit == 100

\* A report that finds nothing wrong, whatever the tables hold.
ReportsAllIntact(baseTable, evTable, key) == NoReport

\* verify_integrity: get_baseline() and get_events(limit=100), each inside its
\* own try/except Exception, which clears the flag of that check and appends
\* a message; the audit log is not read and its flag stays True.
VerifyIntegrity(baseTable, evTable, key) ==
    LET b == GetBaseline(baseTable, key, NoPath)
        e == GetEvents(evTable, key, NoPath, NoType, IntegrityLimit)
    IN  [baseline_integrity |-> ~b.raised,
         events_integrity |-> ~e.raised,
         audit_log_integrity |-> TRUE,
         errors |->
             (IF b.raised
              THEN <<<<"Baseline integrity check failed: ",
                       "Tampering detected in baseline record ", b.error_path>>>>
              ELSE <<>>)
             \o (IF e.raised
                 THEN <<<<"Events integrity check failed: ",
                          "Tampering detected in event record ", e.error_id>>>>
                 ELSE <<>>)]

VerifyIntegrityCall ==
    /\ pc = "idle"
    /\ ret' = [NoRet EXCEPT !.op = "verify_integrity", !.status = "returned",
                            !.report = VerifyIntegrity(baseline, events, SecretKey)]
    /\ UNCHANGED <<fsVars, storeVars, pc, call, queue, snap, monVars, sigVars>>

\* The signature column of one row is overwritten directly in storage.
CorruptSignature(table, i) ==
    [table EXCEPT ![i].signature = SignData(AttackerKey, <<"corrupted">>)]

CorruptBaselineSignature(i) ==
    /\ i \in 1..Len(baseline)
    /\ baseline' = CorruptSignature(baseline, i)
    /\ tampers < MaxEnvOps
    /\ tampers' = tampers + 1
    /\ ret' = NoRet
    /\ UNCHANGED <<events, audit_log, dbLock, txn, pc, call, queue, snap,
                   fsVars, monVars, sigVars>>

CorruptEventSignature(i) ==
    /\ i \in 1..Len(events)
    /\ events' = CorruptSignature(events, i)
    /\ tampers < MaxEnvOps
    /\ tampers' = tampers + 1
    /\ ret' = NoRet
    /\ UNCHANGED <<baseline, audit_log, dbLock, txn, pc, call, queue, snap,
                   fsVars, monVars, sigVars>>

\* The operation column of one audit_log row is overwritten directly in storage.
CorruptAuditRow(i) ==
    /\ i \in 1..Len(audit_log)
    /\ audit_log[i].operation # "FORGED"
    /\ audit_log' = [audit_log EXCEPT ![i].operation = "FORGED"]
    /\ tampers < MaxEnvOps
    /\ tampers' = tampers + 1
    /\ ret' = NoRet
    /\ UNCHANGED <<baseline, events, dbLock, txn, pc, call, queue, snap,
                   fsVars, monVars, sigVars>>

\* ------------------------------- SpecSig: one row, signed, changed, read back
\* The records and events whose rows are put to the test.
SigRecords ==
    [file_path : {"r1/a.txt", "r1/b.conf"}, file_hash : {"h1", "h2"},
     file_size : {1, 2}, mtime : {1, 2}, permissions : {DefaultPerm, PrivatePerm},
     owner : {Owner}]

SigEvents ==
    {[ProcessEvent(p, k, [q \in Paths |-> File("c1", DefaultPerm, 1)], 1)
        EXCEPT !.previous_hash = h]
        : p \in {"r1/a.txt", "r1/b.conf"}, k \in {"created", "deleted"},
          h \in {NoHash, "h2"}}

NoSig ==
    [table |-> "none", row |-> <<>>, field |-> "none", raised |-> FALSE]

\* store_baseline signs the record and writes its row.
SigStoreBaseline(r) ==
    /\ sigstep = "start"
    /\ sigrow' = [NoSig EXCEPT !.table = "baseline", !.row = BaselineRow(SecretKey, r)]
    /\ sigstep' = "stored"
    /\ UNCHANGED <<fsVars, storeVars, apiVars, monVars>>

\* store_event signs the event and writes its row.
SigStoreEvent(e) ==
    /\ sigstep = "start"
    /\ sigrow' = [NoSig EXCEPT !.table = "events", !.row = EventRow(SecretKey, e)]
    /\ sigstep' = "stored"
    /\ UNCHANGED <<fsVars, storeVars, apiVars, monVars>>

\* _log_audit called on a database no connection is writing to: it signs the
\* entry, inserts its row and commits.
SigLogAudit(operation, table_name, record_id) ==
    /\ sigstep = "start"
    /\ sigrow' = [NoSig EXCEPT !.table = "audit_log",
                               !.row = AuditRow(SecretKey, operation, table_name,
                                                record_id, AuditNow(audit_log),
                                                "system", "")]
    /\ sigstep' = "stored"
    /\ UNCHANGED <<fsVars, storeVars, apiVars, monVars>>

\* The values a column can be set to directly in storage.
ColumnValues(field) ==
    CASE field = "file_path" -> {"r1/a.txt", "r1/b.conf"}
      [] field = "file_hash" -> {"h1", "h2"}
      [] field = "file_size" -> {1, 2}
      [] field = "mtime" -> {1, 2}
      [] field = "permissions" -> {DefaultPerm, PrivatePerm}
      [] field = "owner" -> {Owner, "mallory"}
      [] field = "event_type" -> {"created", "deleted"}
      [] field = "previous_hash" -> {NoHash, "h2"}
      [] field = "current_hash" -> {"h1", "h2"}
      [] field = "timestamp" -> {1, 2}
      [] field = "event_id" -> {"1", "2"}
      [] OTHER -> {}

BaselineColumns ==
    {"file_path", "file_hash", "file_size", "mtime", "permissions", "owner"}

EventColumns ==
    {"event_id", "event_type", "file_path", "timestamp", "previous_hash", "current_hash"}

\* One column of the row is changed directly in storage, its signature is not.
SigTamper(field, v) ==
    /\ sigstep = "stored"
    /\ sigrow.table \in {"baseline", "events"}
    /\ field \in (IF sigrow.table = "baseline" THEN BaselineColumns ELSE EventColumns)
    /\ v \in ColumnValues(field)
    /\ v # sigrow.row[field]
    /\ sigrow' = [sigrow EXCEPT !.row[field] = v, !.field = field]
    /\ sigstep' = "changed"
    /\ UNCHANGED <<fsVars, storeVars, apiVars, monVars>>

\* The next get_baseline() / get_events() reads the row.
SigRead ==
    /\ sigstep \in {"stored", "changed"}
    /\ sigrow.table \in {"baseline", "events"}
    /\ sigrow' = [sigrow EXCEPT !.raised =
           IF sigrow.table = "baseline"
           THEN GetBaseline(<<sigrow.row>>, SecretKey, NoPath).raised
           ELSE GetEvents(<<sigrow.row>>, SecretKey, NoPath, NoType, NoLimit).raised]
    /\ sigstep' = IF sigstep = "stored" THEN "read" ELSE "read changed"
    /\ UNCHANGED <<fsVars, storeVars, apiVars, monVars>>

\* ------------------------------------------------------- initial states
StoreInit ==
    /\ baseline = <<>>
    /\ events = <<>>
    /\ audit_log = <<>>
    /\ tampers = 0
    /\ dbLock = NoConn
    /\ txn = <<>>

ApiInit ==
    /\ pc = "idle"
    /\ call = NoCall
    /\ queue = <<>>
    /\ ret = NoRet
    /\ snap = NoSnap

\* FileMonitor.__init__
MonInit ==
    /\ is_monitoring = FALSE
    /\ observer = NoObserver
    /\ handler = NoHandler
    /\ observers = [i \in ObserverIds |-> FreshObserver]
    /\ mpc = [t \in Callers |-> "idle"]
    /\ mcall = [t \in Callers |-> NoMCall]
    /\ mret = NoMRet
    /\ polling = [errors |-> 0, funnelled |-> 0]
    /\ ticks = 0
    /\ notifies = 0
    /\ handled = NoHandled
    /\ stopRet = FALSE

SigInit ==
    /\ sigrow = NoSig
    /\ sigstep = "start"

\* DatabaseManager.__init__ on a new database file, any tree.
Init ==
    /\ fs \in InitTrees
    /\ fsOps = 0
    /\ StoreInit
    /\ ApiInit
    /\ MonInit
    /\ SigInit

Next ==
    \/ \E p \in Paths, c \in Contents : FsCreate(p, c)
    \/ \E p \in Paths, c \in Contents : FsRewrite(p, c)
    \/ \E p \in Paths : FsDelete(p)
    \/ \E p \in Paths, perm \in Perms : FsChmod(p, perm)
    \/ CreateBaselineMissing(<<>>)
    \/ \E root \in Roots, patterns \in PatternLists : CreateBaseline(root, patterns)
    \/ StoreBaselineInsert
    \/ StoreBaselineAudit
    \/ StoreBaselineCommit
    \/ \E file_path \in {NoPath, "r1/a.txt"} : GetBaselineCall(file_path)
    \/ \E root \in Roots, patterns \in PatternLists : VerifyBaselineCall(root, patterns)
    \/ StoreEventCall("r1/b.conf", "created")

Spec == Init /\ [][Next]_vars

\* FileMonitor on a database file that already holds a row written by
\* someone else.
InitMon ==
    /\ fs = [p \in Paths |-> IF p = "r1/b.conf" THEN Absent
                             ELSE File("c1", DefaultPerm, 1)]
    /\ fsOps = 0
    /\ events = <<>>
    /\ audit_log = <<>>
    /\ tampers = 0
    /\ dbLock = NoConn
    /\ txn = <<>>
    /\ baseline = <<ForgedRow("r1/a.txt")>>
    /\ ApiInit
    /\ MonInit
    /\ SigInit

NextMon ==
    \/ \E t \in Callers, paths \in PathLists : StartCheck(t, paths)
    \/ \E t \in Callers : StartHandler(t)
    \/ \E t \in Callers : StartObserver(t)
    \/ \E t \in Callers : StartSchedule(t)
    \/ \E t \in Callers : StartStart(t)
    \/ \E t \in Callers : StartFlag(t)
    \/ \E t \in Callers : StopCheck(t)
    \/ \E t \in Callers : StopStop(t)
    \/ \E t \in Callers : StopJoin(t)
    \/ \E t \in Callers : StopClear(t)
    \/ \E t \in Callers : StopFlag(t)
    \/ \E i \in ObserverIds, p \in Paths, kind \in {"modified", "deleted"} :
          Deliver(i, p, kind)
    \/ \E i \in ObserverIds, root \in Roots : DeliverDirectory(i, root)
    \/ \E i \in ObserverIds : Handle(i)
    \/ \E t \in Callers, paths \in PathLists : PollStart(t, paths)
    \/ \E t \in Callers : PollTick(t)

SpecMon == InitMon /\ [][NextMon]_vars

\* Two writers on one new database file: a FileMonitor that is monitoring
\* r1 (after start_monitoring(["r1"])), whose observer thread handles events,
\* and a BaselineManager whose create_baseline runs at the same time.
InitWriters ==
    /\ fs = [p \in Paths |-> File("c1", DefaultPerm, 1)]
    /\ fsOps = 0
    /\ StoreInit
    /\ ApiInit
    /\ is_monitoring = TRUE
    /\ observer = 1
    /\ handler = 1
    /\ observers = [i \in ObserverIds |->
                       IF i = 1
                       THEN [FreshObserver EXCEPT !.created = TRUE, !.started = TRUE,
                                                  !.watches = {"r1"}]
                       ELSE FreshObserver]
    /\ mpc = [t \in Callers |-> "idle"]
    /\ mcall = [t \in Callers |-> NoMCall]
    /\ mret = NoMRet
    /\ polling = [errors |-> 0, funnelled |-> 0]
    /\ ticks = 0
    /\ notifies = 0
    /\ handled = NoHandled
    /\ stopRet = FALSE
    /\ SigInit

NextWriters ==
    \/ \E p \in {"r1/a.txt", "r1/b.conf"} : FsDelete(p)
    \/ \E p \in {"r1/a.txt", "r1/b.conf"}, c \in Contents : FsRewrite(p, c)
    \/ \E patterns \in PatternLists : CreateBaseline("r1", patterns)
    \/ StoreBaselineInsert
    \/ StoreBaselineAudit
    \/ StoreBaselineCommit
    \/ \E p \in {"r1/a.txt", "r1/b.conf"}, kind \in {"modified", "deleted"} :
          Deliver(1, p, kind)
    \/ Handle(1)

SpecWriters == InitWriters /\ [][NextWriters]_vars

\* FileMonitor with one caller: its calls follow each other on one thread,
\* while the observer's thread delivers and handles events. The path lists
\* include one whose paths are all missing.
SoloPathLists == {<<>>, <<MissingRoot>>, <<MissingRoot, "r1">>, <<"r1", "r2">>}

NextSolo ==
    \/ \E paths \in SoloPathLists : StartCheck("t1", paths)
    \/ StartHandler("t1")
    \/ StartObserver("t1")
    \/ StartSchedule("t1")
    \/ StartStart("t1")
    \/ StartFlag("t1")
    \/ StopCheck("t1")
    \/ StopStop("t1")
    \/ StopJoin("t1")
    \/ StopClear("t1")
    \/ StopFlag("t1")
    \/ \E i \in ObserverIds, p \in Paths, kind \in {"modified", "deleted"} :
          Deliver(i, p, kind)
    \/ \E i \in ObserverIds, root \in Roots : DeliverDirectory(i, root)
    \/ \E i \in ObserverIds : Handle(i)
    \/ \E paths \in SoloPathLists : PollStart("t1", paths)
    \/ PollTick("t1")

SpecSolo == InitMon /\ [][NextSolo]_vars

\* The polling engine on thread t1 and the coordinator's start_monitoring and
\* stop_monitoring called from thread t2. The loop's passes and the steps of
\* a stop_monitoring call are taken whenever they can be (both threads are
\* scheduled); a KeyboardInterrupt may never come.
PollLoopStep == PollTick("t1") \/ PollTickAgain("t1")

StopSteps == StopStop("t2") \/ StopJoin("t2") \/ StopClear("t2") \/ StopFlag("t2")

NextPoll ==
    \/ \E paths \in SoloPathLists : PollStart("t1", paths)
    \/ PollTick("t1")
    \/ PollTickAgain("t1")
    \/ PollInterrupt("t1")
    \/ \E paths \in SoloPathLists : StartCheck("t2", paths)
    \/ StartHandler("t2")
    \/ StartObserver("t2")
    \/ StartSchedule("t2")
    \/ StartStart("t2")
    \/ StartFlag("t2")
    \/ StopCheck("t2")
    \/ StopStop("t2")
    \/ StopJoin("t2")
    \/ StopClear("t2")
    \/ StopFlag("t2")

SpecPoll ==
    InitMon /\ [][NextPoll]_vars /\ WF_vars(PollLoopStep) /\ WF_vars(StopSteps)

InitSig ==
    /\ fs = [p \in Paths |-> Absent]
    /\ fsOps = 0
    /\ StoreInit
    /\ ApiInit
    /\ MonInit
    /\ SigInit

NextSig ==
    \/ \E r \in SigRecords : SigStoreBaseline(r)
    \/ \E e \in SigEvents : SigStoreEvent(e)
    \/ \E operation \in {"INSERT_BASELINE", "INSERT_EVENT"},
          record_id \in {"r1/a.txt", "1"} :
              SigLogAudit(operation, IF operation = "INSERT_EVENT" THEN "events"
                                     ELSE "baseline", record_id)
    \/ \E field \in BaselineColumns \cup EventColumns :
           \E v \in ColumnValues(field) : SigTamper(field, v)
    \/ SigRead

SpecSig == InitSig /\ [][NextSig]_vars

\* get_baseline as a function of the table it reads: rows as store_baseline's
\* INSERT writes them, some of them changed directly in storage afterwards.
ReadRecords ==
    {[file_path |-> p, file_hash |-> h, file_size |-> 1, mtime |-> 1,
      permissions |-> m, owner |-> Owner] :
          p \in Paths, h \in {"h1", "h2"}, m \in {DefaultPerm, PrivatePerm}}

\* The trees the rows are compared with: nothing below the roots, or
\* r1/a.txt and r2/c.tmp without r1/b.conf.
ReadTrees ==
    {[p \in Paths |-> Absent],
     [p \in Paths |-> IF p = "r1/b.conf" THEN Absent ELSE File("c1", DefaultPerm, 1)]}

ReadTables ==
    {<<>>}
    \cup {<<BaselineRow(SecretKey, r)>> : r \in ReadRecords}
    \cup {<<BaselineRow(SecretKey, rq[1]), BaselineRow(SecretKey, rq[2])>> :
            rq \in {x \in ReadRecords \X ReadRecords : x[1].file_path # x[2].file_path}}

InitRead ==
    /\ fs \in ReadTrees
    /\ fsOps = 0
    /\ baseline \in ReadTables
    /\ events = <<>>
    /\ audit_log = <<>>
    /\ tampers = 0
    /\ dbLock = NoConn
    /\ txn = <<>>
    /\ ApiInit
    /\ MonInit
    /\ SigInit

NextRead ==
    \/ \E p \in Paths : TamperInsert(p)
    \/ \E i \in 1..Cardinality(Paths), h \in {"h1", "h2"} : TamperUpdate(i, h)
    \/ \E i \in 1..Cardinality(Paths) : TamperDelete(i)
    \/ \E file_path \in Paths \cup {NoPath} : GetBaselineCall(file_path)
    \/ \E root \in Roots, patterns \in PatternLists : VerifyBaselineCall(root, patterns)

SpecRead == InitRead /\ [][NextRead]_vars


\* get_events and verify_integrity as functions of the tables they read: rows
\* as store_event's and store_baseline's INSERT write them, some signature
\* columns overwritten in storage afterwards.
StoredEvent(n, p, kind, ts) ==
    [ProcessEvent(p, kind, [q \in Paths |-> Absent], n) EXCEPT !.timestamp = ts]

\* One more row than verify_integrity reads, oldest first.
LongEventTable ==
    [n \in 1..(IntegrityLimit + 1) |->
        EventRow(SecretKey,
                 StoredEvent(n, IF n % 2 = 0 THEN "r1/a.txt" ELSE "r1/b.conf",
                             IF n % 3 = 0 THEN "deleted" ELSE "modified", n))]

EventChoices == {"r1/a.txt", "r1/b.conf"} \X {"modified", "deleted"} \X {1, 2}

EventTables ==
    {<<>>, LongEventTable}
    \cup {<<EventRow(SecretKey, StoredEvent(1, x[1], x[2], x[3]))>> : x \in EventChoices}
    \cup {<<EventRow(SecretKey, StoredEvent(1, x[1], x[2], x[3])),
            EventRow(SecretKey, StoredEvent(2, y[1], y[2], y[3]))>> :
                x \in EventChoices, y \in EventChoices}

InitEvents ==
    /\ fs = [p \in Paths |-> Absent]
    /\ fsOps = 0
    /\ baseline \in {<<>>, <<BaselineRow(SecretKey, FromPath("r1/a.txt",
                                                File("c1", DefaultPerm, 1)))>>}
    /\ events \in EventTables
    /\ audit_log = [i \in 1..Len(baseline) |->
                       AuditRow(SecretKey, "INSERT_BASELINE", "baseline",
                                baseline[i].file_path, ToString(i), "system",
                                BaselineDetails(baseline[i]))]
    /\ tampers = 0
    /\ dbLock = NoConn
    /\ txn = <<>>
    /\ ApiInit
    /\ MonInit
    /\ SigInit

NextEvents ==
    \/ CorruptBaselineSignature(1)
    \/ \E i \in {1, 2, IntegrityLimit + 1} : CorruptEventSignature(i)
    \/ \E file_path \in {NoPath, "r1/a.txt"}, event_type \in {NoType, "modified"},
          limit \in {NoLimit, 1} : GetEventsCall(file_path, event_type, limit)
    \/ CorruptAuditRow(1)
    \/ VerifyIntegrityCall

SpecEvents == InitEvents /\ [][NextEvents]_vars

\* Two DatabaseManager instances opened on one database file whose rows were
\* signed by instance 1: each instance reads with the key it generated.
Instances == {1, 2}

GetBaselineThrough(instance, file_path) ==
    /\ pc = "idle"
    /\ LET r == GetBaseline(baseline, GenerateSecretKey(instance), file_path)
       IN  ret' = [NoRet EXCEPT !.op = "get_baseline", !.arg = file_path,
                       !.instance = instance,
                       !.status = IF r.raised THEN "raised" ELSE "returned",
                       !.error = IF r.raised THEN "ValueError: Tampering detected"
                                 ELSE "",
                       !.error_path = r.error_path,
                       !.records = r.records]
    /\ UNCHANGED <<fsVars, storeVars, pc, call, queue, snap, monVars, sigVars>>

GetEventsThrough(instance, file_path, event_type, limit) ==
    /\ pc = "idle"
    /\ LET r == GetEvents(events, GenerateSecretKey(instance), file_path,
                          event_type, limit)
       IN  ret' = [NoRet EXCEPT !.op = "get_events", !.arg = file_path,
                       !.instance = instance,
                       !.event_type = event_type, !.limit = limit,
                       !.status = IF r.raised THEN "raised" ELSE "returned",
                       !.error = IF r.raised THEN "ValueError: Tampering detected"
                                 ELSE "",
                       !.error_path = r.error_id,
                       !.events = r.events]
    /\ UNCHANGED <<fsVars, storeVars, pc, call, queue, snap, monVars, sigVars>>

VerifyIntegrityThrough(instance) ==
    /\ pc = "idle"
    /\ ret' = [NoRet EXCEPT !.op = "verify_integrity", !.status = "returned",
                            !.instance = instance,
                            !.report = VerifyIntegrity(baseline, events,
                                                       GenerateSecretKey(instance))]
    /\ UNCHANGED <<fsVars, storeVars, pc, call, queue, snap, monVars, sigVars>>

NextInstances ==
    \/ \E instance \in Instances, file_path \in {NoPath, "r1/a.txt", "r1/b.conf"} :
          GetBaselineThrough(instance, file_path)
    \/ \E instance \in Instances, file_path \in {NoPath, "r1/a.txt"},
          event_type \in {NoType, "modified"}, limit \in {NoLimit, 1} :
              GetEventsThrough(instance, file_path, event_type, limit)
    \/ \E instance \in Instances : VerifyIntegrityThrough(instance)

SpecInstances == InitEvents /\ [][NextInstances]_vars

\* BaselineManager and the store on a database file that already holds rows,
\* signed as store_baseline and store_event sign them.
StoreTrees ==
    {[p \in Paths |-> Absent],
     [p \in Paths |-> IF p = "r1/b.conf" THEN File("c1", DefaultPerm, 1) ELSE Absent],
     [p \in Paths |-> IF p = "r2/c.tmp" THEN Absent ELSE File("c1", DefaultPerm, 1)]}

StoredRecord(p) ==
    [file_path |-> p, file_hash |-> "h2", file_size |-> 1, mtime |-> 1,
     permissions |-> DefaultPerm, owner |-> Owner]

StoreTables ==
    {<<>>,
     <<BaselineRow(SecretKey, StoredRecord("r1/a.txt"))>>,
     <<BaselineRow(SecretKey, StoredRecord("r1/b.conf"))>>,
     <<BaselineRow(SecretKey, StoredRecord("r1/a.txt")),
       BaselineRow(SecretKey, StoredRecord("r1/b.conf"))>>}

StoredEvents ==
    {<<>>, <<EventRow(SecretKey, StoredEvent(1, "r1/a.txt", "modified", 1))>>}

StoredAudit(evs) ==
    [i \in 1..Len(evs) |->
        AuditRow(SecretKey, "INSERT_EVENT", "events", evs[i].event_id, ToString(i), "system",
                 EventDetails(evs[i]))]

InitStore ==
    /\ fs \in StoreTrees
    /\ fsOps = 0
    /\ baseline \in StoreTables
    /\ events \in StoredEvents
    /\ audit_log = StoredAudit(events)
    /\ tampers = 0
    /\ dbLock = NoConn
    /\ txn = <<>>
    /\ ApiInit
    /\ MonInit
    /\ SigInit

NextStore ==
    \/ \E c \in Contents : FsRewrite("r1/b.conf", c)
    \/ \E p \in {"r1/a.txt", "r1/b.conf"} : FsDelete(p)
    \/ \E patterns \in PatternLists : CreateBaseline("r1", patterns)
    \/ \E patterns \in PatternLists : CreateBaselineAgain("r1", patterns)
    \/ CreateBaselineMissing(<<>>)
    \/ StoreBaselineInsert
    \/ StoreBaselineAudit
    \/ StoreBaselineCommit
    \/ StoreEventCall("r1/b.conf", "created")
    \/ \E kind \in {"modified", "deleted"} : HandleFileEventCall("r1/a.txt", kind)
    \/ \E p \in CriticalInputs : IsCriticalChangeCall(p)
    \/ GetBaselineCall(NoPath)
    \/ \E patterns \in PatternLists : VerifyBaselineCall("r1", patterns)
    \/ GetEventsCall(NoPath, NoType, NoLimit)
    \/ VerifyIntegrityCall

SpecStore == InitStore /\ [][NextStore]_vars

\* =================================================== properties, Spec
LockedError == "OperationalError: database is locked"

\* The last create_baseline has ended (returned or raised), the tree is as it
\* walked it, storage was never written directly, and the call that has just
\* ended is verify_baseline with the same root and patterns.
VerifiedRightAfterCreate ==
    /\ ret.op = "verify_baseline"
    /\ snap.status \in {"returned", "raised"}
    /\ snap.root = ret.arg
    /\ snap.patterns = ret.patterns
    /\ fs = snap.fs
    /\ tampers = 0

\* C1: verify_baseline(root, P) right after create_baseline(root, P), with no
\* file change in between, reports empty created, modified and deleted lists
\* and len(unchanged) = baseline_files = total_files.
C1_VerifyAfterCreateAllUnchanged ==
    VerifiedRightAfterCreate =>
        /\ ret.status = "returned"
        /\ ret.results.created = <<>>
        /\ ret.results.modified = <<>>
        /\ ret.results.deleted = <<>>
        /\ Len(ret.results.unchanged) = ret.results.baseline_files
        /\ ret.results.baseline_files = ret.results.total_files

\* The paths below the baselined root, in the tree create_baseline walked
\* and in the tree now.
WasBaselined(p) == RootOf(p) = snap.root /\ snap.fs[p].exists
IsPresent(p) == RootOf(p) = snap.root /\ fs[p].exists

\* Since create_baseline only contents changed, files went and files came:
\* no permission bits differ and every file can be read.
OnlyContentChanges ==
    /\ \A p \in Paths : snap.fs[p].exists => snap.fs[p].permissions = DefaultPerm
    /\ \A p \in Paths : fs[p].exists => fs[p].permissions = DefaultPerm

\* C2: from an empty store, after create_baseline(root) and rewrites,
\* deletions and additions below root, verify_baseline(root) reports exactly
\* the rewritten paths as modified, the removed ones as deleted, the added
\* ones as created and every other baselined path as unchanged.
C2_VerifyReportsExactChanges ==
    ( /\ ret.op = "verify_baseline"
      /\ snap.status \in {"returned", "raised"}
      /\ snap.storeEmpty
      /\ snap.root = ret.arg
      /\ snap.patterns = <<>>
      /\ ret.patterns = <<>>
      /\ tampers = 0
      /\ OnlyContentChanges )
    =>
    /\ ret.status = "returned"
    /\ SeqRange(ret.results.modified) =
          {p \in Paths : WasBaselined(p) /\ IsPresent(p)
                         /\ fs[p].content # snap.fs[p].content}
    /\ SeqRange(ret.results.deleted) =
          {p \in Paths : WasBaselined(p) /\ ~IsPresent(p)}
    /\ SeqRange(ret.results.created) =
          {p \in Paths : ~WasBaselined(p) /\ IsPresent(p)}
    /\ SeqRange(ret.results.unchanged) =
          {p \in Paths : WasBaselined(p) /\ IsPresent(p)
                         /\ fs[p].content = snap.fs[p].content}

\* The rows the last get_baseline call selected, and those among them whose
\* signature does not verify against their stored path, hash, size and mtime.
SelectedRows == SelectBaseline(baseline, ret.arg)
FailingRows ==
    {i \in 1..Len(SelectedRows) :
        ~VerifySignature(SecretKey, RecordData(SelectedRows[i]), SelectedRows[i].signature)}

\* C3: get_baseline is fail-closed: when a row it would return fails its
\* signature check the call raises a tamper error naming such a row's path and
\* returns no record; otherwise it returns one record per selected row.
C3_GetBaselineFailClosed ==
    ret.op = "get_baseline" =>
        IF FailingRows # {}
        THEN /\ ret.status = "raised"
             /\ ret.error = "ValueError: Tampering detected"
             /\ ret.error_path \in {SelectedRows[i].file_path : i \in FailingRows}
             /\ ret.records = <<>>
        ELSE /\ ret.status = "returned"
             /\ ret.records = [i \in 1..Len(SelectedRows) |-> RowRecord(SelectedRows[i])]

\* get_baseline() raised on a table that also holds a row which verifies.
C3_RaisedBesideGoodRow ==
    /\ ret.op = "get_baseline"
    /\ ret.status = "raised"
    /\ ret.records = <<>>
    /\ FailingRows # {}
    /\ \E i \in 1..Len(SelectedRows) : i \notin FailingRows

\* The fields whose change in storage is to be detected.
MeaningFields ==
    {"file_path", "file_hash", "file_size", "mtime", "permissions", "owner",
     "event_type", "previous_hash", "current_hash"}

\* C4: after one of a stored baseline row's path, hash, size, mtime,
\* permissions or owner, or a stored event row's kind, path, previous hash or
\* current hash was changed in storage without the key, the next get_baseline /
\* get_events that reads the row raises a tamper error.
C4_EveryFieldChangeDetected ==
    (sigstep = "read changed" /\ sigrow.field \in MeaningFields) => sigrow.raised

\* C5: a baseline or event row is visible to readers if and only if the
\* audit_log entry of that write is visible, also after store_baseline or
\* store_event failed part-way (storage not written directly).
C5_RowIffAuditEntry ==
    tampers = 0 =>
        /\ \A i \in 1..Len(baseline) : \E j \in 1..Len(audit_log) :
              /\ audit_log[j].operation = "INSERT_BASELINE"
              /\ audit_log[j].record_id = baseline[i].file_path
        /\ \A i \in 1..Len(events) : \E j \in 1..Len(audit_log) :
              /\ audit_log[j].operation = "INSERT_EVENT"
              /\ audit_log[j].record_id = events[i].event_id
        /\ \A j \in 1..Len(audit_log) :
              \/ /\ audit_log[j].operation = "INSERT_BASELINE"
                 /\ \E i \in 1..Len(baseline) :
                       baseline[i].file_path = audit_log[j].record_id
              \/ /\ audit_log[j].operation = "INSERT_EVENT"
                 /\ \E i \in 1..Len(events) :
                       events[i].event_id = audit_log[j].record_id

\* store_baseline has just failed after its first INSERT.
C5_StoreFailedPartWay ==
    /\ tampers = 0
    /\ ret.op = "create_baseline"
    /\ ret.status = "raised"
    /\ ret.error = LockedError


\* ================================================ properties, SpecMon
\* C6: at most one monitoring engine (running observer or polling loop) is
\* active in every reachable state of a FileMonitor.
C6_AtMostOneActiveEngine == ActiveEngines <= 1

StopPcs == {"stop_stop", "stop_join", "stop_clear", "stop_flag"}

\* A call made in the state its guard excludes goes no further than the
\* guard, and ends without an exception.
RedundantCallsReturnAtGuard ==
    /\ \A t \in Callers : mpc[t] \in StartPcs => ~mcall[t].monitoring
    /\ \A t \in Callers : mpc[t] \in StopPcs => mcall[t].monitoring
    /\ (mret.op = "start_monitoring" /\ mret.monitoring) => mret.result = "noop"
    /\ (mret.op = "stop_monitoring" /\ ~mret.monitoring) => mret.result = "noop"

\* The step in which a call returns at its guard changes nothing of the monitor.
RedundantCallChangesNothing ==
    (mret' # mret /\ mret'.result = "noop") =>
        UNCHANGED <<is_monitoring, observer, handler, observers>>

\* C7: start_monitoring called while Monitoring and stop_monitoring called
\* while Idle do not raise and leave is_monitoring, the observer, the handler
\* and every engine exactly as they were.
C7_RedundantTransitionsAreNoOps ==
    []RedundantCallsReturnAtGuard /\ [][RedundantCallChangesNothing]_vars

\* start; start: the second call has returned at its guard and one engine runs.
C7_SecondStartReturned ==
    /\ mret.op = "start_monitoring"
    /\ mret.monitoring
    /\ mret.result = "noop"
    /\ is_monitoring
    /\ observer # NoObserver
    /\ Cardinality(ActiveObservers) = 1

\* C8: once stop_monitoring has returned, and until a later start, the
\* monitor handles no file event.
C8_NothingHandledAfterStop == ~handled.afterStop

\* C9: a notification for a non-directory path delivered while Monitoring,
\* with the store writable and its rows intact, ends with exactly one event
\* row of that path and kind persisted.
C9_DeliveredEventIsPersisted ==
    ( /\ handled.final # NoEvent
      /\ handled.monitoring
      /\ ~GetBaseline(baseline, SecretKey, handled.final.file_path).raised ) =>
        /\ handled.stored
        /\ Cardinality({i \in 1..Len(events) :
                            /\ events[i].file_path = handled.final.file_path
                            /\ events[i].event_type = handled.final.event_type}) = 1

\* C10: an event the critical-change check flags carries alert_sent and an
\* alert timestamp in its metadata when it is handed to store_event, and so
\* does every stored event row of a critical path.
C10_AlertMarkedBeforePersist ==
    /\ (handled.persist # NoEvent /\ IsCriticalChange(handled.persist)) =>
          /\ handled.persist.metadata.alert_sent
          /\ handled.persist.metadata.alert_timestamp # 0
    /\ \A i \in 1..Len(events) : IsCriticalChange(events[i]) =>
          /\ events[i].metadata.alert_sent
          /\ events[i].metadata.alert_timestamp # 0

\* C11: a failure while handling one event stays inside the handling path:
\* the step on which a handler logs an error changes neither the monitoring
\* flag, nor the monitor's observer and handler, nor any caller's position,
\* and the observer that ran the handler is running afterwards exactly if it
\* was before, with nothing in flight, so that its next event is dispatched.
HandlingFailed(i) ==
    /\ observers[i].inflight # NoInflight
    /\ observers'[i].inflight = NoInflight
    /\ handled'.error # ""

BaselineRowsVerify ==
    \A i \in 1..Len(baseline) : BaselineRowVerifies(SecretKey, baseline[i])

\* The rowids of the n newest event rows.
NewestEvents(n) ==
    {i \in 1..Len(events) :
        Cardinality({j \in 1..Len(events) :
                        \/ events[j].timestamp > events[i].timestamp
                        \/ events[j].timestamp = events[i].timestamp /\ j < i}) < n}

\* verify_integrity returned a report (it has no raising exit) whose baseline
\* flag tells whether every baseline row verifies, whose events flag tells
\* whether every row of evs verifies, and whose errors list holds one message
\* per cleared flag.
IntegrityReportCovers(evs) ==
    ret.op = "verify_integrity" =>
        /\ ret.status = "returned"
        /\ ret.report.baseline_integrity = BaselineRowsVerify
        /\ ret.report.events_integrity =
               \A i \in evs : EventRowVerifies(SecretKey, events[i])
        /\ ret.report.audit_log_integrity
        /\ Len(ret.report.errors) =
               (IF ret.report.baseline_integrity THEN 0 ELSE 1)
               + (IF ret.report.events_integrity THEN 0 ELSE 1)

InCurrent(p) ==
    /\ fs[p].exists
    /\ RootOf(p) = ret.arg
    /\ \A i \in 1..Len(ret.patterns) :
          ~Fnmatch(p, ret.patterns[i]) /\ ~Fnmatch(Basename(p), ret.patterns[i])

InBaseline(p) == \E i \in 1..Len(baseline) : baseline[i].file_path = p

StoredRow(p) == baseline[CHOOSE i \in 1..Len(baseline) : baseline[i].file_path = p]

SameHash(p) == CalculateHash(fs[p]) = StoredRow(p).file_hash

SamePermissions(p) == fs[p].permissions = StoredRow(p).permissions

\* The category the fixed rule gives a path that is in either set.
Category(p) ==
    IF ~InBaseline(p) THEN "created"
    ELSE IF ~InCurrent(p) THEN "deleted"
    ELSE IF ~SameHash(p) THEN "modified"
    ELSE IF ~SamePermissions(p) THEN "permission_changed"
    ELSE "unchanged"

\* C13: a verify_baseline that returned lists every path of the current set
\* or the baseline once, in the list of its category: only in current ->
\* created; only in baseline -> deleted; in both with different hash ->
\* modified, whatever the permission bits; in both with equal hash and
\* different permission bits -> permission_changed; otherwise unchanged.
C13_ClassifiedByFixedRule ==
    (ret.op = "verify_baseline" /\ ret.status = "returned") =>
        LET res == ret.results
            lists == [created |-> res.created, deleted |-> res.deleted,
                      modified |-> res.modified,
                      permission_changed |-> res.permission_changed,
                      unchanged |-> res.unchanged]
        IN  \A c \in DOMAIN lists :
                /\ SeqRange(lists[c]) =
                       {p \in Paths : (InCurrent(p) \/ InBaseline(p)) /\ Category(p) = c}
                /\ Len(lists[c]) = Cardinality(SeqRange(lists[c]))

C13_ModifiedWithOtherPermissions ==
    /\ ret.op = "verify_baseline"
    /\ ret.status = "returned"
    /\ ret.results.modified = <<"r1/a.txt">>
    /\ ~SamePermissions("r1/a.txt")
    /\ ret.results.deleted # <<>>
    /\ tampers = 0

\* =================================================== properties, SpecStore
MatchesPattern(p, patterns) ==
    \E i \in 1..Len(patterns) :
        Fnmatch(p, patterns[i]) \/ Fnmatch(Basename(p), patterns[i])

\* The files the last create_baseline found below its root that match one of
\* its exclude patterns.
ExcludedAtBaselineTime ==
    {p \in Paths : /\ snap.fs[p].exists
                   /\ RootOf(p) = snap.root
                   /\ MatchesPattern(p, snap.patterns)}

OneRowPerPath(table) ==
    \A i, j \in 1..Len(table) : table[i].file_path = table[j].file_path => i = j

C16_OneRecordPerPath == OneRowPerPath(baseline) /\ OneRowPerPath(txn)

C16_StoredOverExistingRow ==
    /\ pc = "sb_audit"
    /\ Head(queue).file_path \in PathsOf(baseline)
    /\ Len(txn) = Len(baseline)
    /\ txn # baseline
    /\ BaselineRow(SecretKey, Head(queue)) \in SeqRange(txn)

IsPrefix(s, t) == Len(s) <= Len(t) /\ SubSeq(t, 1, Len(s)) = s

\* C17: events and audit_log are append-only: every step of a store, verify
\* or integrity operation leaves each committed row of the two tables in its
\* place with the values it had; rows are only added after them.
C17_EventsAndAuditAppendOnly ==
    [][IsPrefix(events, events') /\ IsPrefix(audit_log, audit_log')]_vars

C17_StoreOperationsOverCommittedRows ==
    /\ ret.op = "store_event"
    /\ snap.status # "none"
    /\ events # <<>>
    /\ audit_log # <<>>

\* The records the last create_baseline handed to store_baseline.
RecordsGiven == WalkRecords(snap.root, snap.patterns, snap.fs)

\* C18: a store_baseline of n records has added n audit_log entries when it
\* ends, each with operation INSERT_BASELINE and the record's path as record
\* id; a store_event has added one, with operation INSERT_EVENT and the
\* event's id; a read operation adds none.
StoreLeavesAuditEntries ==
    /\ (ret.op = "create_baseline" /\ ret.arg # MissingRoot) =>
          /\ Len(audit_log) = snap.audit + Len(RecordsGiven)
          /\ \A i \in 1..Len(RecordsGiven) :
                /\ audit_log[snap.audit + i].operation = "INSERT_BASELINE"
                /\ audit_log[snap.audit + i].record_id = RecordsGiven[i].file_path
    /\ ret.op = "store_event" =>
          /\ events # <<>>
          /\ events[Len(events)].file_path = ret.arg
          /\ audit_log # <<>>
          /\ audit_log[Len(audit_log)].operation = "INSERT_EVENT"
          /\ audit_log[Len(audit_log)].record_id = events[Len(events)].event_id

ReadOps == {"get_baseline", "get_events", "verify_baseline", "verify_integrity"}

BaselineRead == GetBaseline(baseline, SecretKey, NoPath)
EventsRead == GetEvents(events, SecretKey, NoPath, NoType, NoLimit)

\* C19: with storage never modified directly, every record given to
\* store_baseline is returned by a later get_baseline, without a tamper error
\* and with the path, hash, size, mtime and permissions it was given with;
\* every event given to store_event is returned by a later get_events with
\* its id, kind, path and timestamp.
C19_StoredIsReadBack ==
    /\ snap.status \in {"returned", "raised"} =>
          /\ ~BaselineRead.raised
          /\ \A i \in 1..Len(RecordsGiven) :
                \E j \in 1..Len(BaselineRead.records) :
                    \A f \in {"file_path", "file_hash", "file_size", "mtime",
                               "permissions"} :
                        BaselineRead.records[j][f] = RecordsGiven[i][f]
    /\ ret.op = "store_event" =>
          /\ ~EventsRead.raised
          /\ \E j \in 1..Len(EventsRead.events) :
                /\ EventsRead.events[j].file_path = ret.arg
                /\ EventsRead.events[j].event_type = "created"
                /\ EventsRead.events[j].event_id = ToString(Len(events))
                /\ EventsRead.events[j].timestamp = Len(events)

\* ======================================= properties, SpecEvents: get_events
\* The rowids of the event rows that match the filters of the get_events
\* call that has just ended, and those of them the limit leaves.
Matching ==
    {i \in 1..Len(events) :
        /\ ret.arg # NoPath => events[i].file_path = ret.arg
        /\ ret.event_type # NoType => events[i].event_type = ret.event_type}

Newer(j, i) ==
    \/ events[j].timestamp > events[i].timestamp
    \/ events[j].timestamp = events[i].timestamp /\ j < i

Wanted ==
    IF ret.limit = NoLimit
    THEN Matching
    ELSE {i \in Matching : Cardinality({j \in Matching : Newer(j, i)}) < ret.limit}

\* C20: get_events(path, kind, limit) returns exactly the stored events that
\* match the path and kind filters (the newest `limit` of them when a limit
\* is given), newest first, each with the values of its row; if one of the
\* rows it would return fails signature verification, it raises and returns
\* nothing.
C20_GetEventsFilteredNewestFirstFailClosed ==
    ret.op = "get_events" =>
        IF \E i \in Wanted : ~EventRowVerifies(SecretKey, events[i])
        THEN ret.status = "raised" /\ ret.events = <<>>
        ELSE /\ ret.status = "returned"
             /\ Len(ret.events) = Cardinality(Wanted)
             /\ \A i \in Wanted : \E k \in 1..Len(ret.events) :
                    ret.events[k] = RowEvent(events[i])
             /\ \A k \in 1..(Len(ret.events) - 1) :
                    ret.events[k].timestamp >= ret.events[k + 1].timestamp

C20_NewestFirstAgainstRowidOrder ==
    /\ ret.op = "get_events"
    /\ ret.status = "returned"
    /\ ret.arg # NoPath
    /\ ret.event_type # NoType
    /\ Len(ret.events) = 2
    /\ ret.events[1].timestamp > ret.events[2].timestamp
    /\ events[1].timestamp < events[2].timestamp

\* C21: create_baseline called a second time with the same root and patterns
\* on the unchanged tree leaves, for every file of the walk, a stored record
\* with the file's hash, size and permissions, and as many baseline records
\* as there were after the first call.
C21_SecondCreateStoresTheSame ==
    (snap.repeated /\ snap.status \in {"returned", "raised"}) =>
        /\ Len(baseline) = snap.rows
        /\ \A i \in 1..Len(RecordsGiven) :
              \E j \in 1..Len(baseline) :
                  \A f \in {"file_path", "file_hash", "file_size", "permissions"} :
                      baseline[j][f] = RecordsGiven[i][f]

\* C22: FileRecord.from_path builds a record only from a file it can read:
\* every record create_baseline obtained from the walk belongs to a file
\* that existed and was readable when it was walked (for any other file
\* from_path raises ValueError and there is no record).
C22_RecordOnlyFromReadableFile ==
    call.op = "create_baseline" =>
        \A i \in 1..Len(call.records) :
            /\ Readable(snap.fs[call.records[i].file_path])
            /\ call.records[i].file_hash # EmptyHash

\* A file of the tree that exists and cannot be opened for reading.
Unreadable(p) == fs[p].exists /\ ~Readable(fs[p])

\* C23: verify_baseline skips a file it cannot read and completes with the
\* remaining files: an unreadable file is in none of the lists of files
\* found in the walk, and total_files counts the other walked files only.
C23_UnreadableFileSkipped ==
    (ret.op = "verify_baseline" /\ ret.status = "returned") =>
        /\ \A p \in Paths :
              Unreadable(p) =>
                  \A l \in {"created", "modified", "permission_changed", "unchanged"} :
                      p \notin SeqRange(ret.results[l])
        /\ ret.results.total_files =
              Cardinality({p \in SeqRange(Walk(ret.arg, fs)) :
                              ~ShouldExclude(p, ret.patterns) /\ Readable(fs[p])})

\* ================================================ properties, SpecSolo
\* The paths of a list.
ListedPaths(paths) == {paths[i] : i \in 1..Len(paths)}

\* The step in which the body of start_monitoring ends: it ends without an
\* exception, in Monitoring, with the coordinator's observer the only running
\* one, watching the listed paths that exist and no other.
StartBodyEndsMonitoring ==
    (mpc["t1"] \in StartPcs /\ mpc'["t1"] = "idle") =>
        /\ mret'.op = "start_monitoring"
        /\ mret'.result = "ok"
        /\ is_monitoring'
        /\ observer' # NoObserver
        /\ ActiveObservers' = {observer'}
        /\ observers'[observer'].watches = ListedPaths(mcall["t1"].paths) \cap Roots

\* C24: start_monitoring called in Idle with a non-empty path list ends in
\* Monitoring (is_monitoring true, observer set) with exactly one running
\* observer, which watches every listed path that exists; listed paths that
\* do not exist are skipped without error, also when none of them exists.
C24_StartEndsMonitoringOneEngine ==
    /\ [](mret.op = "start_monitoring" =>
              mret.result \in {"ok", "noop", "raised ValueError"})
    /\ [][StartBodyEndsMonitoring]_vars

\* start_monitoring(["r0"]): Monitoring, with an observer that watches nothing.
C24_StartedWithAllPathsMissing ==
    /\ mret.op = "start_monitoring"
    /\ mret.result = "ok"
    /\ is_monitoring
    /\ observer # NoObserver
    /\ Running(observers[observer])
    /\ observers[observer].watches = {}

\* C25: stop_monitoring called in Monitoring ends without an exception in
\* Idle with the engine released (is_monitoring false, observer None, no
\* observer running), and a later start_monitoring succeeds; whenever no call
\* is under way, is_monitoring is true exactly when an observer is held.
C25_StopReleasesEngine ==
    /\ mret.op = "stop_monitoring" => mret.result \in {"ok", "noop"}
    /\ mpc["t1"] = "idle" =>
          /\ is_monitoring <=> observer # NoObserver
          /\ (mret.op = "stop_monitoring" /\ mret.result = "ok") =>
                /\ ~is_monitoring
                /\ observer = NoObserver
                /\ ActiveObservers = {}

\* start; stop; start: the second start has succeeded with a new observer.
C25_RestartedAfterStop ==
    /\ mret.op = "start_monitoring"
    /\ mret.result = "ok"
    /\ is_monitoring
    /\ observer # NoObserver
    /\ \E i \in ObserverIds : i # observer /\ observers[i].stopped
    /\ ActiveObservers = {observer}

\* No engine is being started, or running, on an empty path list.
NoEngineWithoutPaths ==
    \A t \in Callers :
        mpc[t] \in StartPcs \cup {"poll_loop"} => mcall[t].paths # <<>>

\* The step in which a start ends with the configuration error. For
\* start_monitoring the error is raised in Idle only.
ConfigurationErrorChangesNothing ==
    (mret' # mret /\ mret'.result = "raised ValueError") =>
        /\ UNCHANGED <<is_monitoring, observer, handler, observers, mpc>>
        /\ mret'.op = "start_monitoring" => ~is_monitoring'

\* C26: start_monitoring (in Idle) and run_polling_monitor called with no
\* paths, none being configured, end with ValueError and change nothing: no
\* observer, handler or polling loop is created and is_monitoring keeps its
\* value, false in Idle.
C26_NoPathsIsConfigurationError ==
    []NoEngineWithoutPaths /\ [][ConfigurationErrorChangesNothing]_vars

\* run_polling_monitor([]) has raised ValueError in Idle.
C26_PollingRefusedInIdle ==
    /\ mret.op = "run_polling_monitor"
    /\ mret.result = "raised ValueError"
    /\ ~is_monitoring
    /\ observer = NoObserver
    /\ ActiveEngines = 0

\* ================================================ properties, SpecStore
\* C27: create_baseline on a root path that does not exist raises ValueError
\* and leaves the baseline, events and audit_log tables, and the database's
\* lock, as they were.
C27_MissingRootRaisesStoreUntouched ==
    [][(ret'.op = "create_baseline" /\ ret'.arg = MissingRoot) =>
           /\ ret'.status = "raised"
           /\ ret'.error = "ValueError: Path does not exist"
           /\ UNCHANGED <<baseline, events, audit_log, txn, dbLock>>]_vars

\* create_baseline("r0") has raised on a database that holds rows in all
\* three tables.
C27_RaisedOverStoredRows ==
    /\ ret.op = "create_baseline"
    /\ ret.arg = MissingRoot
    /\ ret.status = "raised"
    /\ baseline # <<>>
    /\ events # <<>>
    /\ audit_log # <<>>

\* C28: verification is read-only: verify_baseline leaves the baseline,
\* events and audit_log tables unchanged, whatever the tree and the store
\* hold; handling a file event never creates, replaces or deletes a baseline
\* record.
C28_VerificationIsReadOnly ==
    [][/\ ret'.op = "verify_baseline" => UNCHANGED <<baseline, events, audit_log>>
       /\ ret'.op = "_handle_file_event" => baseline' = baseline]_vars

\* verify_baseline has reported a file as deleted and its record is still
\* in the store.
C28_DeletedFileKeepsItsRecord ==
    /\ ret.op = "verify_baseline"
    /\ ret.status = "returned"
    /\ ret.results.deleted # <<>>
    /\ \A i \in 1..Len(ret.results.deleted) :
          \E j \in 1..Len(baseline) : baseline[j].file_path = ret.results.deleted[i]

\* The segments of a path: what stands between its separators.
RECURSIVE Segments(_)
Segments(cs) ==
    LET seps == {i \in 1..Len(cs) : cs[i] = "/"}
    IN  IF seps = {} THEN <<cs>>
        ELSE <<SubSeq(cs, 1, Min(seps) - 1)>>
             \o Segments(SubSeq(cs, Min(seps) + 1, Len(cs)))

\* The directory segments of a path: all segments but the file name.
DirSegments(p) == SubSeq(Segments(Chars(p)), 1, Len(Segments(Chars(p))) - 1)

\* The sensitive directories, each as its segments.
SensitiveDirectories == {Segments(critical) : critical \in CriticalPaths}

\* C29: _is_critical_change is true exactly when the path's lower-cased
\* extension is in the fixed set, or the path's directory segments include a
\* sensitive directory (etc, bin, sbin, usr/bin, usr/sbin, Windows/System32)
\* as whole segments: a name inside a longer segment does not count, and a
\* path under Windows/System32 does.
C29_CriticalByExtensionOrSegment ==
    ret.op = "_is_critical_change" =>
        ret.critical =
            (\/ Suffix(ret.arg) \in CriticalExtensions
             \/ \E d \in SensitiveDirectories : Contains(DirSegments(ret.arg), d))

\* ================================================ properties, SpecEvents
\* C30: on a store whose rows were all written by store_baseline and
\* store_event of this store instance and never modified directly,
\* verify_integrity reports baseline_integrity, events_integrity and
\* audit_log_integrity true and an empty errors list.
C30_UntouchedStoreVerifiesIntact ==
    (tampers = 0 /\ ret.op = "verify_integrity") =>
        /\ ret.report.baseline_integrity
        /\ ret.report.events_integrity
        /\ ret.report.audit_log_integrity
        /\ ret.report.errors = <<>>

\* verify_integrity has returned on an untouched store that holds a baseline
\* record and more events than one check reads.
C30_VerifiedOverStoredRows ==
    /\ tampers = 0
    /\ ret.op = "verify_integrity"
    /\ ret.status = "returned"
    /\ baseline # <<>>
    /\ Len(events) > IntegrityLimit

\* ================================================ properties, the store's lock
\* C31: on a database no other connection is using, store_event and
\* store_baseline with at least one record end without raising, and the rows
\* they were given are then in the events and baseline tables: the audit
\* write on the second connection is not blocked by the operation's own
\* uncommitted write.
C31_StoreCallsReturnAndCommit ==
    /\ ret.op = "store_event" =>
          /\ ret.status = "returned"
          /\ \E i \in 1..Len(events) : events[i].file_path = ret.arg
    /\ (ret.op = "create_baseline" /\ ret.arg \in Roots /\ RecordsGiven # <<>>) =>
          /\ ret.status = "returned"
          /\ \A i \in 1..Len(RecordsGiven) :
                \E j \in 1..Len(baseline) :
                    baseline[j].file_path = RecordsGiven[i].file_path

\* Every committed audit entry has its primary row committed.
AuditedRowsCommitted ==
    \A i \in 1..Len(audit_log) :
        /\ audit_log[i].operation = "INSERT_EVENT" =>
              \E j \in 1..Len(events) : events[j].event_id = audit_log[i].record_id
        /\ audit_log[i].operation = "INSERT_BASELINE" =>
              \E j \in 1..Len(baseline) : baseline[j].file_path = audit_log[i].record_id

\* C32: when the monitor's event handler runs its store operation while a
\* create_baseline is storing, the writes are serialized: the handler's
\* event row and its audit entry are both committed, and in no state is an
\* audit entry committed without its primary row.
C32_ConcurrentWritesCommitAsPairs ==
    /\ AuditedRowsCommitted
    /\ (handled.concurrent /\ handled.persist # NoEvent) =>
          /\ handled.stored
          /\ \E j \in 1..Len(events) : events[j].file_path = handled.persist.file_path
          /\ \E i \in 1..Len(audit_log) : audit_log[i].operation = "INSERT_EVENT"

\* ================================================ properties, SpecPoll
\* C33: a polling loop that is running when stop_monitoring has been called
\* eventually returns, without a KeyboardInterrupt.
C33_StoppedPollingLoopReturns ==
    (mret.op = "stop_monitoring" /\ PollingLoops # {}) ~> (PollingLoops = {})

\* The files under the roots for which a polling pass owes an event: those
\* without a baseline record (Created) and those whose current hash differs
\* from the hash of their baseline record (Modified).
OwedPollEvents(roots) ==
    {p \in Paths :
        /\ RootOf(p) \in roots
        /\ fs[p].exists
        /\ \/ ~InBaseline(p)
           \/ StoredRow(p).file_hash # CalculateHash(fs[p])}

C35_AuditRowVerifiesFromItsColumns ==
    (sigrow.table = "audit_log" /\ sigstep = "stored") =>
        VerifySignature(SecretKey,
                        AuditData(sigrow.row.operation, sigrow.row.table_name,
                                  sigrow.row.record_id, sigrow.row.timestamp,
                                  sigrow.row.user, sigrow.row.details),
                        sigrow.row.signature)

\* C36: verify_integrity reports the audit log like the other two tables:
\* when an audit_log row has been modified directly in storage, the report
\* has audit_log_integrity false and an error message.
C36_ModifiedAuditRowReported ==
    (ret.op = "verify_integrity"
         /\ \E i \in 1..Len(audit_log) : audit_log[i].operation = "FORGED") =>
        /\ ~ret.report.audit_log_integrity
        /\ ret.report.errors # <<>>

\* C37: signing keys are per store instance and never persisted: with storage
\* never modified, whatever get_baseline or get_events returns through the
\* instance that wrote the rows is rejected as tampered through a different
\* instance opened on the same file (the call raises), and verify_integrity
\* through that instance reports false for every table that holds a row.
C37_OtherInstanceRejectsRows ==
    (ret.instance # 1 /\ tampers = 0) =>
        /\ (ret.op = "get_baseline"
               /\ GetBaseline(baseline, GenerateSecretKey(1), ret.arg).records # <<>>) =>
              (ret.status = "raised" /\ ret.records = <<>>)
        /\ (ret.op = "get_events"
               /\ GetEvents(events, GenerateSecretKey(1), ret.arg, ret.event_type,
                            ret.limit).events # <<>>) =>
              (ret.status = "raised" /\ ret.events = <<>>)
        /\ ret.op = "verify_integrity" =>
              /\ baseline # <<>> => ~ret.report.baseline_integrity
              /\ events # <<>> => ~ret.report.events_integrity

\* Both tables hold rows the writing instance reads back, and verify_integrity
\* through the other instance has reported both as failed.
C37_SecondInstanceReportedBoth ==
    /\ ret.instance = 2
    /\ ret.op = "verify_integrity"
    /\ tampers = 0
    /\ GetBaseline(baseline, GenerateSecretKey(1), NoPath).records # <<>>
    /\ GetEvents(events, GenerateSecretKey(1), NoPath, NoType, NoLimit).events # <<>>
    /\ ~ret.report.baseline_integrity
    /\ ~ret.report.events_integrity
    /\ Len(ret.report.errors) = 2

\* C38: previous-hash linkage: every event _handle_file_event hands to
\* store_event has previous_hash equal to the content hash of the baseline
\* record for the event's path at handling time, and null when the baseline
\* has no record for that path.
C38_PreviousHashLinksToBaseline ==
    (ret.op = "_handle_file_event" /\ ret.handed) =>
        LET rows == SelectBaseline(baseline, ret.arg)
        IN  ret.previous_hash = IF rows # <<>> THEN rows[1].file_hash ELSE NoHash

\* An event for a path with a baseline record was handed to store_event with
\* that record's hash, which is not the hash of the file as it is now.
C38_LinkedToStoredRecord ==
    /\ ret.op = "_handle_file_event"
    /\ ret.handed
    /\ SelectBaseline(baseline, ret.arg) # <<>>
    /\ ret.previous_hash = SelectBaseline(baseline, ret.arg)[1].file_hash
    /\ ret.previous_hash # NoHash

\* How many times path p is listed in seq.
Occurrences(seq, p) == Cardinality({i \in 1..Len(seq) : seq[i] = p})

\* The five lists of a verify_baseline result.
ResultLists(r) ==
    <<r.created, r.deleted, r.modified, r.permission_changed, r.unchanged>>

\* C39: verify_baseline's result is a partition: every path of the current
\* walk or of the stored baseline is listed exactly once over created,
\* deleted, modified, permission_changed and unchanged, no other path is
\* listed, total_files = |created| + |modified| + |permission_changed| +
\* |unchanged| and baseline_files = |deleted| + |modified| +
\* |permission_changed| + |unchanged|.
C39_VerifyResultIsPartition ==
    (ret.op = "verify_baseline" /\ ret.status = "returned") =>
        LET r == ret.results
            lists == ResultLists(r)
            walked == PathsOf(WalkRecords(ret.arg, ret.patterns, fs))
            stored == PathsOf(GetBaseline(baseline, SecretKey, NoPath).records)
            listed(p) == Occurrences(lists[1], p) + Occurrences(lists[2], p)
                             + Occurrences(lists[3], p) + Occurrences(lists[4], p)
                             + Occurrences(lists[5], p)
        IN  /\ \A p \in walked \cup stored : listed(p) = 1
            /\ \A k \in 1..5 : SeqRange(lists[k]) \subseteq walked \cup stored
            /\ r.total_files = Len(r.created) + Len(r.modified)
                                   + Len(r.permission_changed) + Len(r.unchanged)
            /\ r.baseline_files = Len(r.deleted) + Len(r.modified)
                                      + Len(r.permission_changed) + Len(r.unchanged)

\* A verification that returned with a stored path not walked and a walked
\* file whose hash and permission bits both differ from its record.
C39_DeletedAndModifiedListed ==
    /\ ret.op = "verify_baseline"
    /\ ret.status = "returned"
    /\ ret.results.deleted # <<>>
    /\ \E i \in 1..Len(ret.results.modified) :
           LET p == ret.results.modified[i]
           IN  RecordOf(WalkRecords(ret.arg, ret.patterns, fs), p).permissions
                   # RecordOf(GetBaseline(baseline, SecretKey, NoPath).records, p).permissions

====
